---- MODULE Spec2Model ----
(***************************************************************************)
(* cuverif: batched 4-state logic simulator.                               *)
(*                                                                         *)
(* Layers modelled here:                                                   *)
(*   - the vectorised kernels of the CPU backend (numpy) and of the        *)
(*     accelerator (numba.cuda), as operators over LogicBuffers;           *)
(*   - LogicTensor objects living in a heap (identity matters: Chip.step   *)
(*     rebinds names to tensors, DFlipFlop.step writes in place);          *)
(*   - DFlipFlop, and the Chip with its levelised evaluation and step().   *)
(***************************************************************************)
EXTENDS Naturals, Integers, Sequences, FiniteSets, TLC

VARIABLES
    ka, kb, kout, klast,            \* kernel bench: operand buffers, output buffer, last kernel run
    heap,                           \* tensor id -> LogicTensor object
    ta, tb, tt, tlast,              \* tensor bench: user references a, b, result/target t, last op
    ff,                             \* a DFlipFlop object (batch_size, q) or NoFF
    chip,                           \* the Chip object: declaration, plan and signal store
    clast,                          \* last Chip/DFlipFlop call made by the driver
    fc,                             \* a FaultCampaign object (batch_size, fault_list, next_free_index)
    flast, fret,                    \* last FaultCampaign call and what it returned
    scan, slast,                    \* a ScanChain object (chain, length) and the last call made on it
    mon, mlast,                     \* a Monitor object (signals, history, cycle) and the last call made on it
    dbg,                            \* a DebugPort object (reg_map)
    tap, jlast,                     \* a TAPController object and the last call made on it
    bank, blast                     \* a FuseBank object (fuses, q) and the last call made on it

vars ==
    <<ka, kb, kout, klast, heap, ta, tb, tt, tlast, ff, chip, clast, fc, flast, fret,
      scan, slast, mon, mlast, dbg, tap, jlast, bank, blast>>

\* the debug port, the TAP controller and the fuse bank, which the benches of
\* the other objects leave alone
periph == <<dbg, tap, jlast, bank, blast>>

\* ------------------------------------------------------------------ bounds
\* lanes of the buffers on the kernel and tensor benches
BatchSize == 2
\* largest uint32 word a host array passed to from_host holds on the wide bench
MaxWord == 2
\* lanes of a Chip (Chip.batch_size)
ChipBatch == 1
\* lanes of a FaultCampaign (FaultCampaign.batch_size)
FaultBatch == 3
\* largest fault_type a driver passes to add_fault
MaxStuck == 2
\* flip-flops of a ScanChain (ScanChain.length)
ScanLen == 2

\* ------------------------------------------------------------------ 4-state encoding
V_0 == 0
S_0 == 1
V_1 == 1
S_1 == 1
V_X == 0
S_X == 0
V_Z == 1
S_Z == 0

Lane0 == [v |-> V_0, s |-> S_0]
Lane1 == [v |-> V_1, s |-> S_1]
LaneX == [v |-> V_X, s |-> S_X]
LaneZ == [v |-> V_Z, s |-> S_Z]
FourStates == {Lane0, Lane1, LaneX, LaneZ}

\* uint32 bitwise operators of numpy / numba on the words the model reaches
RECURSIVE BitXor(_, _)
BitXor(x, y) ==
    IF x = 0 /\ y = 0 THEN 0
    ELSE (((x % 2) + (y % 2)) % 2) + (2 * BitXor(x \div 2, y \div 2))

RECURSIVE BitAnd(_, _)
BitAnd(x, y) ==
    IF x = 0 \/ y = 0 THEN 0
    ELSE ((x % 2) * (y % 2)) + (2 * BitAnd(x \div 2, y \div 2))

RECURSIVE BitOr(_, _)
BitOr(x, y) ==
    IF x = 0 /\ y = 0 THEN 0
    ELSE (IF (x % 2) = 1 \/ (y % 2) = 1 THEN 1 ELSE 0) + (2 * BitOr(x \div 2, y \div 2))

\* LogicBuffers: the pair of lane arrays (v, s)
LogicBuffers(v, s) == [v |-> v, s |-> s]

\* the lane i of a pair of buffers, as a (v, s) record
LaneOf(buf, i) == [v |-> buf.v[i], s |-> buf.s[i]]

\* ------------------------------------------------------------------ CPU backend
\* CpuBackend.alloc_logic: np.zeros for both arrays
alloc_logic(n) == LogicBuffers([i \in 1..n |-> 0], [i \in 1..n |-> 0])

\* CpuBackend.copy_from_host: buffers.v[:] = host_v; buffers.s[:] = host_s
copy_from_host(buffers, host_v, host_s) ==
    LogicBuffers([i \in DOMAIN buffers.v |-> host_v[i]], [i \in DOMAIN buffers.s |-> host_s[i]])

\* a plausible slip: the controlling 0 is not honoured when the other input is X/Z
logic_and_nodominance(out, a, b, n) ==
    LET valid(i) == a.s[i] = 1 /\ b.s[i] = 1
        both_one(i) == valid(i) /\ a.v[i] = 1 /\ b.v[i] = 1
    IN  LogicBuffers([i \in DOMAIN out.v |-> IF both_one(i) THEN 1 ELSE 0],
                     [i \in DOMAIN out.s |-> IF valid(i) THEN 1 ELSE 0])

logic_and(out, a, b, n) ==
    LET a_zero(i) == a.s[i] = 1 /\ a.v[i] = 0
        b_zero(i) == b.s[i] = 1 /\ b.v[i] = 0
        any_zero(i) == a_zero(i) \/ b_zero(i)
        a_one(i) == a.s[i] = 1 /\ a.v[i] = 1
        b_one(i) == b.s[i] = 1 /\ b.v[i] = 1
        both_one(i) == a_one(i) /\ b_one(i)
    IN  LogicBuffers([i \in DOMAIN out.v |-> IF both_one(i) THEN 1 ELSE 0],
                     [i \in DOMAIN out.s |-> IF any_zero(i) \/ both_one(i) THEN 1 ELSE 0])

\* a plausible slip: the controlling 1 is not honoured when the other input is X/Z
logic_or_nodominance(out, a, b, n) ==
    LET valid(i) == a.s[i] = 1 /\ b.s[i] = 1
        any_one(i) == valid(i) /\ (a.v[i] = 1 \/ b.v[i] = 1)
    IN  LogicBuffers([i \in DOMAIN out.v |-> IF any_one(i) THEN 1 ELSE 0],
                     [i \in DOMAIN out.s |-> IF valid(i) THEN 1 ELSE 0])

logic_or(out, a, b, n) ==
    LET a_one(i) == a.s[i] = 1 /\ a.v[i] = 1
        b_one(i) == b.s[i] = 1 /\ b.v[i] = 1
        any_one(i) == a_one(i) \/ b_one(i)
        a_zero(i) == a.s[i] = 1 /\ a.v[i] = 0
        b_zero(i) == b.s[i] = 1 /\ b.v[i] = 0
        both_zero(i) == a_zero(i) /\ b_zero(i)
    IN  LogicBuffers([i \in DOMAIN out.v |-> IF any_one(i) THEN 1 ELSE 0],
                     [i \in DOMAIN out.s |-> IF any_one(i) \/ both_zero(i) THEN 1 ELSE 0])

\* a plausible slip: the values are xored without looking at the strengths
\* (the legacy 1-state kernel), the strength being that of a
logic_xor_legacy(out, a, b, n) ==
    LogicBuffers([i \in DOMAIN out.v |-> BitXor(a.v[i], b.v[i])],
                 [i \in DOMAIN out.s |-> a.s[i]])

logic_xor(out, a, b, n) ==
    LET valid_mask(i) == a.s[i] = 1 /\ b.s[i] = 1
    IN  LogicBuffers([i \in DOMAIN out.v |-> IF valid_mask(i) THEN BitXor(a.v[i], b.v[i]) ELSE 0],
                     [i \in DOMAIN out.s |-> IF valid_mask(i) THEN 1 ELSE 0])

\* a plausible slip: the strength of the input is not consulted
logic_not_nostrength(out, a, n) ==
    LogicBuffers([i \in DOMAIN out.v |-> BitXor(a.v[i], 1)], [i \in DOMAIN out.s |-> 1])

logic_not(out, a, n) ==
    LET valid(i) == a.s[i] = 1
    IN  LogicBuffers([i \in DOMAIN out.v |-> IF valid(i) THEN BitXor(a.v[i], 1) ELSE 0],
                     [i \in DOMAIN out.s |-> IF valid(i) THEN 1 ELSE 0])

\* a plausible slip: an undefined reset holds the previous Q instead of corrupting it
dff_update_hold(q_next, d, rst, n) ==
    LET rst_invalid(i) == rst.s[i] = 0
        rst_active(i) == rst.v[i] = 1
    IN  LogicBuffers(
            [i \in DOMAIN q_next.v |->
                IF rst_invalid(i) THEN q_next.v[i] ELSE IF rst_active(i) THEN 0 ELSE d.v[i]],
            [i \in DOMAIN q_next.s |->
                IF rst_invalid(i) THEN q_next.s[i] ELSE IF rst_active(i) THEN 1 ELSE d.s[i]])

dff_update(q_next, d, rst, n) ==
    LET rst_invalid(i) == rst.s[i] = 0
        rst_active(i) == rst.v[i] = 1
        mask_rst(i) == rst_active(i) /\ ~rst_invalid(i)
        \* new_v = d.v.copy(); new_v[mask_rst] = 0; new_v[rst_invalid] = 0
        new_v == [i \in DOMAIN d.v |->
                    IF rst_invalid(i) THEN 0 ELSE IF mask_rst(i) THEN 0 ELSE d.v[i]]
        \* new_s = d.s.copy(); new_s[mask_rst] = 1; new_s[rst_invalid] = 0
        new_s == [i \in DOMAIN d.s |->
                    IF rst_invalid(i) THEN 0 ELSE IF mask_rst(i) THEN 1 ELSE d.s[i]]
        \* q_next.v[:] = new_v; q_next.s[:] = new_s (an array of one lane is broadcast)
    IN  LogicBuffers([i \in DOMAIN q_next.v |-> new_v[IF Len(d.v) = 1 THEN 1 ELSE i]],
                     [i \in DOMAIN q_next.s |-> new_s[IF Len(d.s) = 1 THEN 1 ELSE i]])

\* CpuBackend.dff_update on arrays of any lengths: where numpy stops it.
\* "index": a boolean mask indexes an array of another length, before anything
\* is written; "v": new_v fits q_next.v neither lane by lane nor by broadcast,
\* nothing is written; "s": the same for new_s, q_next.v being written already
dff_update_error(q_next, d, rst) ==
    LET fits(src, dst) == Len(src) = Len(dst) \/ Len(src) = 1
    IN  IF ~(fits(rst.v, rst.s) \/ fits(rst.s, rst.v)) THEN "index"
        ELSE IF Len(d.v) # (IF Len(rst.v) = 1 THEN Len(rst.s) ELSE Len(rst.v)) THEN "index"
        ELSE IF Len(d.s) # (IF Len(rst.v) = 1 THEN Len(rst.s) ELSE Len(rst.v)) THEN "index"
        ELSE IF Len(d.v) # Len(rst.s) \/ Len(d.s) # Len(rst.s) THEN "index"
        ELSE IF ~fits(d.v, q_next.v) THEN "v"
        ELSE IF ~fits(d.s, q_next.s) THEN "s"
        ELSE "none"

\* a plausible slip: the value is overlaid but the strength of the lane is left as it was
inject_fault_keepstrength(target, en_mask, val_mask, n) ==
    LET mask(i) == en_mask.v[i] # 0
    IN  LogicBuffers([i \in DOMAIN target.v |-> IF mask(i) THEN val_mask.v[i] ELSE target.v[i]],
                     [i \in DOMAIN target.s |-> target.s[i]])

\* a plausible slip: the enable mask is reduced over the whole batch (en_mask.v.any())
inject_fault_anylane(target, en_mask, val_mask, n) ==
    LET mask(i) == \E j \in DOMAIN en_mask.v : en_mask.v[j] # 0
    IN  LogicBuffers([i \in DOMAIN target.v |-> IF mask(i) THEN val_mask.v[i] ELSE target.v[i]],
                     [i \in DOMAIN target.s |-> IF mask(i) THEN 1 ELSE target.s[i]])

inject_fault(target, en_mask, val_mask, n) ==
    LET mask(i) == en_mask.v[i] # 0        \* en_mask.v.astype(bool)
    IN  LogicBuffers([i \in DOMAIN target.v |-> IF mask(i) THEN val_mask.v[i] ELSE target.v[i]],
                     [i \in DOMAIN target.s |-> IF mask(i) THEN 1 ELSE target.s[i]])

\* ------------------------------------------------------------------ accelerator kernels
\* Each kernel returns the (out_v, out_s) arrays after the launch; thread idx < n
\* writes lane idx, every other lane keeps what the buffer held.
k_and_4state(a_v, a_s, b_v, b_s, out_v, out_s, n) ==
    LET a_is_zero(i) == a_v[i] = 0 /\ a_s[i] = 1
        b_is_zero(i) == b_v[i] = 0 /\ b_s[i] = 1
        both_valid(i) == a_s[i] = 1 /\ b_s[i] = 1
    IN  LogicBuffers(
            [i \in DOMAIN out_v |->
                IF i > n THEN out_v[i]
                ELSE IF a_is_zero(i) \/ b_is_zero(i) THEN 0
                ELSE IF both_valid(i) THEN BitAnd(a_v[i], b_v[i]) ELSE 0],
            [i \in DOMAIN out_s |->
                IF i > n THEN out_s[i]
                ELSE IF a_is_zero(i) \/ b_is_zero(i) THEN 1
                ELSE IF both_valid(i) THEN 1 ELSE 0])

k_or_4state(a_v, a_s, b_v, b_s, out_v, out_s, n) ==
    LET a_is_one(i) == a_v[i] = 1 /\ a_s[i] = 1
        b_is_one(i) == b_v[i] = 1 /\ b_s[i] = 1
        both_valid(i) == a_s[i] = 1 /\ b_s[i] = 1
    IN  LogicBuffers(
            [i \in DOMAIN out_v |->
                IF i > n THEN out_v[i]
                ELSE IF a_is_one(i) \/ b_is_one(i) THEN 1
                ELSE IF both_valid(i) THEN BitOr(a_v[i], b_v[i]) ELSE 0],
            [i \in DOMAIN out_s |->
                IF i > n THEN out_s[i]
                ELSE IF a_is_one(i) \/ b_is_one(i) THEN 1
                ELSE IF both_valid(i) THEN 1 ELSE 0])

k_not_4state(a_v, a_s, out_v, out_s, n) ==
    LogicBuffers(
        [i \in DOMAIN out_v |->
            IF i > n THEN out_v[i] ELSE IF a_s[i] = 1 THEN BitXor(a_v[i], 1) ELSE 0],
        [i \in DOMAIN out_s |->
            IF i > n THEN out_s[i] ELSE IF a_s[i] = 1 THEN 1 ELSE 0])

k_xor_4state(a_v, a_s, b_v, b_s, out_v, out_s, n) ==
    LET invalid(i) == a_s[i] = 0 \/ b_s[i] = 0
    IN  LogicBuffers(
            [i \in DOMAIN out_v |->
                IF i > n THEN out_v[i] ELSE IF invalid(i) THEN 0 ELSE BitXor(a_v[i], b_v[i])],
            [i \in DOMAIN out_s |->
                IF i > n THEN out_s[i] ELSE IF invalid(i) THEN 0 ELSE 1])

k_dff_update_4state(d_v, d_s, q_v, q_s, rst_v, rst_s, n) ==
    LogicBuffers(
        [i \in DOMAIN q_v |->
            IF i > n THEN q_v[i]
            ELSE IF rst_s[i] = 0 THEN 0 ELSE IF rst_v[i] = 1 THEN 0 ELSE d_v[i]],
        [i \in DOMAIN q_s |->
            IF i > n THEN q_s[i]
            ELSE IF rst_s[i] = 0 THEN 0 ELSE IF rst_v[i] = 1 THEN 1 ELSE d_s[i]])

k_inject_fault(val, strength, fault_en, fault_val, n) ==
    LogicBuffers(
        [i \in DOMAIN val |-> IF i <= n /\ fault_en[i] = 1 THEN fault_val[i] ELSE val[i]],
        [i \in DOMAIN strength |-> IF i <= n /\ fault_en[i] = 1 THEN 1 ELSE strength[i]])

\* ------------------------------------------------------------------ kernel bench
\* Host arrays are copied into device buffers (LogicTensor.from_host) and the
\* kernels are run on them, the output buffer being whatever the last run left.
NoBuf == LogicBuffers(<<>>, <<>>)

\* the buffers from_host fills from host arrays of n words each in 0..w
HostBuffers(n, w) ==
    { copy_from_host(alloc_logic(n), host_v, host_s) :
        host_v \in [1..n -> 0..w], host_s \in [1..n -> 0..w] }

KernelOff == ka = NoBuf /\ kb = NoBuf /\ kout = NoBuf /\ klast = "off"

KernelFrame == UNCHANGED <<ka, kb>>

K_cpu_and ==
    /\ klast # "off"
    /\ kout' = logic_and(kout, ka, kb, Len(kout.v))
    /\ klast' = "cpu_and"
    /\ KernelFrame

K_cpu_or ==
    /\ klast # "off"
    /\ kout' = logic_or(kout, ka, kb, Len(kout.v))
    /\ klast' = "cpu_or"
    /\ KernelFrame

K_cpu_xor ==
    /\ klast # "off"
    /\ kout' = logic_xor(kout, ka, kb, Len(kout.v))
    /\ klast' = "cpu_xor"
    /\ KernelFrame

K_cpu_not ==
    /\ klast # "off"
    /\ kout' = logic_not(kout, ka, Len(kout.v))
    /\ klast' = "cpu_not"
    /\ KernelFrame

K_cpu_dff ==
    /\ klast # "off"
    /\ kout' = dff_update(kout, ka, kb, Len(kout.v))
    /\ klast' = "cpu_dff"
    /\ KernelFrame

K_cpu_inject ==
    /\ klast # "off"
    /\ kout' = inject_fault(kout, ka, kb, Len(kout.v))
    /\ klast' = "cpu_inject"
    /\ KernelFrame

K_cuda_and ==
    /\ klast # "off"
    /\ kout' = k_and_4state(ka.v, ka.s, kb.v, kb.s, kout.v, kout.s, Len(kout.v))
    /\ klast' = "cuda_and"
    /\ KernelFrame

K_cuda_or ==
    /\ klast # "off"
    /\ kout' = k_or_4state(ka.v, ka.s, kb.v, kb.s, kout.v, kout.s, Len(kout.v))
    /\ klast' = "cuda_or"
    /\ KernelFrame

K_cuda_xor ==
    /\ klast # "off"
    /\ kout' = k_xor_4state(ka.v, ka.s, kb.v, kb.s, kout.v, kout.s, Len(kout.v))
    /\ klast' = "cuda_xor"
    /\ KernelFrame

K_cuda_not ==
    /\ klast # "off"
    /\ kout' = k_not_4state(ka.v, ka.s, kout.v, kout.s, Len(kout.v))
    /\ klast' = "cuda_not"
    /\ KernelFrame

K_cuda_dff ==
    /\ klast # "off"
    /\ kout' = k_dff_update_4state(ka.v, ka.s, kout.v, kout.s, kb.v, kb.s, Len(kout.v))
    /\ klast' = "cuda_dff"
    /\ KernelFrame

K_cuda_inject ==
    /\ klast # "off"
    /\ kout' = k_inject_fault(kout.v, kout.s, ka.v, kb.v, Len(kout.v))
    /\ klast' = "cuda_inject"
    /\ KernelFrame

\* ------------------------------------------------------------------ LogicTensor
\* The heap maps a tensor's identity to the object: its backend, batch size and
\* the two buffers. Identity 0 is None. An operation returns the heap it leaves,
\* the reference it returns and whether it raised.
NoRef == 0

\* select_default_backend(): CudaBackend leaves the abstract copy_from_host
\* undefined, so constructing it raises and the CPU backend is selected
DEFAULT_BACKEND == "cpu"

\* the identity of a newly constructed object: one no live object has
NewId(h) ==
    CHOOSE i \in 1..(Cardinality(DOMAIN h) + 1) :
        i \notin DOMAIN h /\ \A j \in 1..(i - 1) : j \in DOMAIN h

Put(h, id, obj) == [i \in (DOMAIN h) \cup {id} |-> IF i = id THEN obj ELSE h[i]]

\* Objects no reference reaches are gone, and an identity is only told apart
\* from the identities of the other live objects: the objects that lived before
\* the call keep theirs, the objects the call made take the lowest free ones,
\* in the order the references reach them.
MinFree(used) ==
    CHOOSE i \in 1..(Cardinality(used) + 1) :
        i \notin used /\ \A j \in 1..(i - 1) : j \in used

RECURSIVE Renumber(_, _, _)
Renumber(refs, kept, m) ==
    IF refs = <<>> THEN m
    ELSE LET named(id, to) ==
                 Renumber(Tail(refs), kept,
                          [x \in (DOMAIN m) \cup {id} |-> IF x = id THEN to ELSE m[x]])
         IN  IF Head(refs) = NoRef \/ Head(refs) \in DOMAIN m
             THEN Renumber(Tail(refs), kept, m)
             ELSE named(Head(refs),
                        IF Head(refs) \in kept THEN Head(refs)
                        ELSE MinFree(kept \cup {m[x] : x \in DOMAIN m}))

\* the renaming of the live objects after a call: before is the heap the call
\* started from, refs the references held after it
Renaming(before, refs) ==
    Renumber(refs, ({refs[k] : k \in 1..Len(refs)} \ {NoRef}) \cap DOMAIN before,
             [x \in {} |-> NoRef])

Renamed(m, ref) == IF ref = NoRef THEN NoRef ELSE m[ref]

\* the heap of the live objects under the renaming
Collect(h, m) == [j \in {m[x] : x \in DOMAIN m} |-> h[CHOOSE i \in DOMAIN m : m[i] = j]]

EmptyHeap == [i \in {} |-> 0]

Result(h, ref, raised) == [heap |-> h, ref |-> ref, raised |-> raised]

\* LogicTensor.__init__, case 2: allocate new buffers on the backend
LogicTensor(h, n, backend) ==
    LET made(bufs, id) ==
            Result(Put(h, id, [backend |-> backend, batch_size |-> n,
                               v_data |-> bufs.v, s_data |-> bufs.s]), id, FALSE)
    IN  made(alloc_logic(n), NewId(h))

_buffers(obj) == LogicBuffers(obj.v_data, obj.s_data)

\* the object with its buffers' contents replaced (a kernel wrote into them)
Written(obj, bufs) == [obj EXCEPT !.v_data = bufs.v, !.s_data = bufs.s]

\* LogicTensor.from_host: allocate, then copy the host arrays in
from_host(h, data_v, data_s, backend) ==
    IF DOMAIN data_v # DOMAIN data_s
    THEN Result(h, NoRef, TRUE)
    ELSE LET filled(r) ==
                 Result(Put(r.heap, r.ref,
                            Written(r.heap[r.ref],
                                    copy_from_host(_buffers(r.heap[r.ref]), data_v, data_s))),
                        r.ref, FALSE)
         IN  filled(LogicTensor(h, Len(data_v), backend))

zeros(h, n) == from_host(h, [i \in 1..n |-> 0], [i \in 1..n |-> 1], DEFAULT_BACKEND)
ones(h, n) == from_host(h, [i \in 1..n |-> 1], [i \in 1..n |-> 1], DEFAULT_BACKEND)
unknown(h, n) == from_host(h, [i \in 1..n |-> 0], [i \in 1..n |-> 0], DEFAULT_BACKEND)
hiz(h, n) == from_host(h, [i \in 1..n |-> 1], [i \in 1..n |-> 0], DEFAULT_BACKEND)

\* LogicTensor._ensure_compatible: TRUE when it raises
_ensure_compatible(h, self, other) ==
    \/ h[self].backend # h[other].backend
    \/ h[self].batch_size # h[other].batch_size

__and__(h, self, other) ==
    IF _ensure_compatible(h, self, other) THEN Result(h, NoRef, TRUE)
    ELSE LET computed(r) ==
                 Result(Put(r.heap, r.ref,
                            Written(r.heap[r.ref],
                                    logic_and(_buffers(r.heap[r.ref]), _buffers(h[self]),
                                               _buffers(h[other]), h[self].batch_size))),
                        r.ref, FALSE)
         IN  computed(LogicTensor(h, h[self].batch_size, h[self].backend))

__or__(h, self, other) ==
    IF _ensure_compatible(h, self, other) THEN Result(h, NoRef, TRUE)
    ELSE LET computed(r) ==
                 Result(Put(r.heap, r.ref,
                            Written(r.heap[r.ref],
                                    logic_or(_buffers(r.heap[r.ref]), _buffers(h[self]),
                                               _buffers(h[other]), h[self].batch_size))),
                        r.ref, FALSE)
         IN  computed(LogicTensor(h, h[self].batch_size, h[self].backend))

__xor__(h, self, other) ==
    IF _ensure_compatible(h, self, other) THEN Result(h, NoRef, TRUE)
    ELSE LET computed(r) ==
                 Result(Put(r.heap, r.ref,
                            Written(r.heap[r.ref],
                                    logic_xor(_buffers(r.heap[r.ref]), _buffers(h[self]),
                                               _buffers(h[other]), h[self].batch_size))),
                        r.ref, FALSE)
         IN  computed(LogicTensor(h, h[self].batch_size, h[self].backend))

\* a plausible slip: NOT computed into the operand's own buffers, self returned
__invert__inplace(h, self) ==
    Result(Put(h, self, Written(h[self], logic_not(_buffers(h[self]), _buffers(h[self]),
                                                   h[self].batch_size))),
           self, FALSE)

__invert__(h, self) ==
    LET computed(r) ==
            Result(Put(r.heap, r.ref,
                       Written(r.heap[r.ref],
                               logic_not(_buffers(r.heap[r.ref]), _buffers(h[self]),
                                         h[self].batch_size))),
                   r.ref, FALSE)
    IN  computed(LogicTensor(h, h[self].batch_size, h[self].backend))

\* LogicTensor.force: the overlay is written into self's own buffers
force(h, self, enable_mask, value_mask) ==
    IF _ensure_compatible(h, self, enable_mask) \/ _ensure_compatible(h, self, value_mask)
    THEN Result(h, NoRef, TRUE)
    ELSE Result(Put(h, self,
                    Written(h[self], inject_fault(_buffers(h[self]), _buffers(h[enable_mask]),
                                                  _buffers(h[value_mask]), h[self].batch_size))),
                self, FALSE)

\* LogicTensor.cpu(): copies of the two lane arrays
cpu(h, self) == LogicBuffers(h[self].v_data, h[self].s_data)

\* ------------------------------------------------------------------ tensor bench
\* A driver holds two operand tensors a and b made by from_host and a third
\* reference t: t is rebound to the result of each operator and is the target
\* of force.
TensorOff == ta = NoRef /\ tb = NoRef /\ tt = NoRef /\ tlast = "off"

T_settle(r, m, op) ==
    /\ ~r.raised
    /\ tt' = Renamed(m, r.ref)
    /\ heap' = Collect(r.heap, m)
    /\ tlast' = op
    /\ UNCHANGED <<ta, tb>>

T_apply(r, op) == T_settle(r, Renaming(heap, <<ta, tb, r.ref>>), op)

T_and == tlast # "off" /\ T_apply(__and__(heap, ta, tb), "and")

T_or == tlast # "off" /\ T_apply(__or__(heap, ta, tb), "or")

T_xor == tlast # "off" /\ T_apply(__xor__(heap, ta, tb), "xor")

T_not == tlast # "off" /\ T_apply(__invert__(heap, ta), "not")

T_force == tlast # "off" /\ T_apply(force(heap, tt, ta, tb), "force")

\* ------------------------------------------------------------------ DFlipFlop
NoFF == [batch_size |-> 0, q |-> NoRef]

\* DFlipFlop.__init__: q = core.zeros(batch_size)
DFlipFlop(h, n) ==
    LET made(r) == [heap |-> r.heap, ff |-> [batch_size |-> n, q |-> r.ref]]
    IN  made(zeros(h, n))

\* a plausible slip: the default reset tensor is the active level
DFlipFlop_step_default_active(h, self, d, reset) ==
    LET updated(r) ==
            Result(Put(r.heap, self.q,
                       Written(r.heap[self.q],
                               dff_update(_buffers(r.heap[self.q]), _buffers(r.heap[d]),
                                          _buffers(r.heap[r.ref]), self.batch_size))),
                   self.q, FALSE)
    IN  updated(IF reset = NoRef THEN ones(h, self.batch_size) ELSE Result(h, reset, FALSE))

\* a plausible slip: the next state is written into a fresh tensor, which is
\* returned, and q's own buffers are left as they were
DFlipFlop_step_fresh(h, self, d, reset) ==
    LET written(r, q_next) ==
            Result(Put(q_next.heap, q_next.ref,
                       Written(q_next.heap[q_next.ref],
                               dff_update(_buffers(q_next.heap[q_next.ref]),
                                          _buffers(q_next.heap[d]),
                                          _buffers(q_next.heap[r.ref]), self.batch_size))),
                   q_next.ref, FALSE)
        updated(r) == written(r, zeros(r.heap, self.batch_size))
    IN  updated(IF reset = NoRef THEN zeros(h, self.batch_size) ELSE Result(h, reset, FALSE))

\* DFlipFlop.step: with no reset a fresh all-zero tensor stands in; the backend
\* kernel writes into q's own buffers and q itself is returned
DFlipFlop_step(h, self, d, reset) ==
    LET written(r) ==
            dff_update(_buffers(r.heap[self.q]), _buffers(r.heap[d]), _buffers(r.heap[r.ref]),
                       self.batch_size)
        stopped(r, error) ==
            CASE error = "none" ->
                    Result(Put(r.heap, self.q, Written(r.heap[self.q], written(r))), self.q, FALSE)
              [] error = "s" ->
                    Result(Put(r.heap, self.q,
                               [r.heap[self.q] EXCEPT
                                   !.v_data = dff_update(LogicBuffers(r.heap[self.q].v_data,
                                                                      r.heap[d].s_data),
                                                         _buffers(r.heap[d]),
                                                         _buffers(r.heap[r.ref]),
                                                         self.batch_size).v]),
                           NoRef, TRUE)
              [] OTHER -> Result(r.heap, NoRef, TRUE)
        updated(r) ==
            stopped(r, dff_update_error(_buffers(r.heap[self.q]), _buffers(r.heap[d]),
                                       _buffers(r.heap[r.ref])))
    IN  updated(IF reset = NoRef THEN zeros(h, self.batch_size) ELSE Result(h, reset, FALSE))

\* ------------------------------------------------------------------ Chip
\* A gate instance is [type, name, ports]; ports[1] is the output (Python's
\* ports[0]), for a dff ports = <<q, d, clk>> or <<q, d, clk, rst>>.
Gate(type, name, ports) == [type |-> type, name |-> name, ports |-> ports]

RECURSIVE AllPorts(_)
AllPorts(insts) ==
    IF insts = <<>> THEN <<>> ELSE Head(insts).ports \o AllPorts(Tail(insts))

\* Chip._init_signals: one fresh all-zero tensor per declared or implied name
RECURSIVE _init_signals(_, _, _, _)
_init_signals(h, sigs, names, n) ==
    IF names = <<>> THEN [heap |-> h, signals |-> sigs]
    ELSE IF Head(names) \in DOMAIN sigs THEN _init_signals(h, sigs, Tail(names), n)
    ELSE LET bound(r) ==
                 _init_signals(r.heap,
                               [x \in (DOMAIN sigs) \cup {Head(names)} |->
                                   IF x = Head(names) THEN r.ref ELSE sigs[x]],
                               Tail(names), n)
         IN  bound(zeros(h, n))

\* a plausible slip: the dependency graph is built over every instance, flip-flops included
IsComb_any(g) == TRUE

IsComb(g) == g.type # "dff"
IsDff(g) == g.type = "dff"

\* a plausible slip: no producer is recorded, so no dependency edge is built
producer_map_none(comb_gates) == [sig \in {} |-> 0]

\* producer_map: signal -> index of the (last) combinational gate writing it
producer_map(comb_gates) ==
    [sig \in {comb_gates[i].ports[1] : i \in 1..Len(comb_gates)} |->
        CHOOSE i \in 1..Len(comb_gates) :
            /\ comb_gates[i].ports[1] = sig
            /\ \A j \in (i + 1)..Len(comb_gates) : comb_gates[j].ports[1] # sig]

\* the dependency edges <<producer, consumer>> in the order the code appends them
RECURSIVE EdgesOfInputs(_, _, _)
EdgesOfInputs(pm, inputs, i) ==
    IF inputs = <<>> THEN <<>>
    ELSE (IF Head(inputs) \in DOMAIN pm THEN << <<pm[Head(inputs)], i>> >> ELSE <<>>)
         \o EdgesOfInputs(pm, Tail(inputs), i)

RECURSIVE AllEdges(_, _, _)
AllEdges(comb_gates, pm, i) ==
    IF i > Len(comb_gates) THEN <<>>
    ELSE EdgesOfInputs(pm, Tail(comb_gates[i].ports), i) \o AllEdges(comb_gates, pm, i + 1)

\* adj[u]: the consumers of gate u
Adj(edges, u) ==
    LET mine == SelectSeq(edges, LAMBDA e : e[1] = u)
    IN  [k \in 1..Len(mine) |-> mine[k][2]]

\* for v in adj[u]: in_degree[v] -= 1; if in_degree[v] == 0: queue.append(v)
RECURSIVE Relax(_, _, _)
Relax(vs, in_degree, queue) ==
    IF vs = <<>> THEN [in_degree |-> in_degree, queue |-> queue]
    ELSE LET next(v, deg) ==
                 Relax(Tail(vs), deg, IF deg[v] = 0 THEN Append(queue, v) ELSE queue)
         IN  next(Head(vs), [in_degree EXCEPT ![Head(vs)] = in_degree[Head(vs)] - 1])

\* Kahn's algorithm with a FIFO queue
RECURSIVE Kahn(_, _, _, _)
Kahn(edges, queue, in_degree, sorted_indices) ==
    IF queue = <<>> THEN sorted_indices
    ELSE LET popped(u, r) == Kahn(edges, r.queue, r.in_degree, Append(sorted_indices, u))
         IN  popped(Head(queue), Relax(Adj(edges, Head(queue)), in_degree, Tail(queue)))

\* a plausible slip: the gates are left in the order of their declaration
_topological_sort_declared(insts) == SelectSeq(insts, IsComb)

\* Chip._topological_sort
_topological_sort(insts) ==
    LET picked(comb_gates, sorted_indices) ==
            [k \in 1..Len(sorted_indices) |-> comb_gates[sorted_indices[k]]]
        in_degree(comb_gates, edges) ==
            [i \in 1..Len(comb_gates) |-> Cardinality({k \in 1..Len(edges) : edges[k][2] = i})]
        queue(comb_gates, deg) ==
            SelectSeq([i \in 1..Len(comb_gates) |-> i], LAMBDA i : deg[i] = 0)
        kahn(comb_gates, edges, deg) ==
            picked(comb_gates, Kahn(edges, queue(comb_gates, deg), deg, <<>>))
        graph(comb_gates, edges) == kahn(comb_gates, edges, in_degree(comb_gates, edges))
        sort(comb_gates) == graph(comb_gates, AllEdges(comb_gates, producer_map(comb_gates), 1))
    IN  sort(SelectSeq(insts, IsComb))

\* Chip.__init__
Chip(h, name, inputs, outputs, wires, insts, n) ==
    LET built(init) ==
            [heap |-> init.heap,
             chip |-> [name |-> name, inputs |-> inputs, outputs |-> outputs, wires |-> wires,
                       instances |-> insts, batch_size |-> n, signals |-> init.signals,
                       sorted_gates |-> _topological_sort(insts),
                       dffs |-> SelectSeq(insts, IsDff)]]
    IN  built(_init_signals(h, [x \in {} |-> NoRef],
                            inputs \o outputs \o wires \o AllPorts(insts), n))

NoChip ==
    [name |-> "", inputs |-> <<>>, outputs |-> <<>>, wires |-> <<>>, instances |-> <<>>,
     batch_size |-> 0, signals |-> [x \in {} |-> NoRef], sorted_gates |-> <<>>, dffs |-> <<>>]

\* the walk through step(): the signal store, the heap and whether it raised
StepState(sigs, h, raised) == [signals |-> sigs, heap |-> h, raised |-> raised]

Bind(sigs, name, ref) == [sigs EXCEPT ![name] = ref]

Apply2(op, h, x, y) ==
    CASE op = "and" -> __and__(h, x, y)
      [] op = "or" -> __or__(h, x, y)
      [] OTHER -> __xor__(h, x, y)

\* a plausible slip: only the first two inputs are combined
Fold_pair(op, h, res, rest) ==
    IF rest = <<>> THEN Result(h, res, FALSE) ELSE Apply2(op, h, res, Head(rest))

\* res = inputs[0]; for i in range(1, len(inputs)): res = res <op> inputs[i]
RECURSIVE Fold(_, _, _, _)
Fold(op, h, res, rest) ==
    IF rest = <<>> THEN Result(h, res, FALSE)
    ELSE LET next(r) == IF r.raised THEN r ELSE Fold(op, r.heap, r.ref, Tail(rest))
         IN  next(Apply2(op, h, res, Head(rest)))

\* a plausible slip: the result is stored under the gate's first input, not its output
EvalGate_first_input(st, gate) ==
    LET known == {"and", "or", "xor", "not", "nand", "nor", "xnor", "buf"}
        base == CASE gate.type \in {"and", "nand"} -> "and"
                  [] gate.type \in {"or", "nor"} -> "or"
                  [] OTHER -> "xor"
        inverted(folded) ==
            IF folded.raised THEN folded ELSE __invert__(folded.heap, folded.ref)
        compute(inputs) ==
            CASE gate.type \in {"and", "or", "xor"} ->
                    Fold(base, st.heap, inputs[1], Tail(inputs))
              [] gate.type \in {"nand", "nor", "xnor"} ->
                    inverted(Fold(base, st.heap, inputs[1], Tail(inputs)))
              [] gate.type = "not" -> __invert__(st.heap, inputs[1])
              [] OTHER -> Result(st.heap, inputs[1], FALSE)
        written(res) ==
            IF res.raised THEN StepState(st.signals, res.heap, TRUE)
            ELSE StepState(Bind(st.signals, gate.ports[2], res.ref), res.heap, FALSE)
        evaluate(inputs) ==
            IF gate.type \notin known THEN st
            ELSE IF inputs = <<>> THEN StepState(st.signals, st.heap, TRUE)
            ELSE written(compute(inputs))
    IN  evaluate([k \in 1..(Len(gate.ports) - 1) |-> st.signals[gate.ports[k + 1]]])

\* the body of the loop over sorted_gates for one gate
EvalGate(st, gate) ==
    LET known == {"and", "or", "xor", "not", "nand", "nor", "xnor", "buf"}
        base == CASE gate.type \in {"and", "nand"} -> "and"
                  [] gate.type \in {"or", "nor"} -> "or"
                  [] OTHER -> "xor"
        inverted(folded) ==
            IF folded.raised THEN folded ELSE __invert__(folded.heap, folded.ref)
        compute(inputs) ==
            CASE gate.type \in {"and", "or", "xor"} ->
                    Fold(base, st.heap, inputs[1], Tail(inputs))
              [] gate.type \in {"nand", "nor", "xnor"} ->
                    inverted(Fold(base, st.heap, inputs[1], Tail(inputs)))
              [] gate.type = "not" -> __invert__(st.heap, inputs[1])
              [] OTHER -> Result(st.heap, inputs[1], FALSE)
        written(res) ==
            IF res.raised THEN StepState(st.signals, res.heap, TRUE)
            ELSE StepState(Bind(st.signals, gate.ports[1], res.ref), res.heap, FALSE)
        evaluate(inputs) ==
            IF gate.type \notin known THEN st
            ELSE IF inputs = <<>> THEN StepState(st.signals, st.heap, TRUE)
            ELSE written(compute(inputs))
    IN  evaluate([k \in 1..(Len(gate.ports) - 1) |-> st.signals[gate.ports[k + 1]]])

\* a plausible slip: the plan is walked from its last gate to its first
RECURSIVE comb_phase_reversed(_, _)
comb_phase_reversed(st, gates) ==
    IF gates = <<>> \/ st.raised THEN st
    ELSE comb_phase_reversed(EvalGate(st, gates[Len(gates)]), SubSeq(gates, 1, Len(gates) - 1))

\* 1. Combinational Logic: for gate in self.sorted_gates
RECURSIVE comb_phase(_, _)
comb_phase(st, gates) ==
    IF gates = <<>> \/ st.raised THEN st
    ELSE comb_phase(EvalGate(st, Head(gates)), Tail(gates))

\* a plausible slip: the flip-flop captures only when its clk port holds a
\* strong 1 on every lane, and keeps Q otherwise
DffNext_clocked(sigs, h, dff, n) ==
    LET updated(r, d_val, rst_val) ==
            IF dff_update_error(_buffers(r.heap[r.ref]), _buffers(r.heap[d_val]),
                                _buffers(r.heap[rst_val])) # "none"
            THEN Result(h, NoRef, TRUE)
            ELSE Result(Put(r.heap, r.ref,
                            Written(r.heap[r.ref],
                                    dff_update(_buffers(r.heap[r.ref]), _buffers(r.heap[d_val]),
                                               _buffers(r.heap[rst_val]), n))),
                        r.ref, FALSE)
    IN  IF \E i \in DOMAIN h[sigs[dff.ports[3]]].v_data :
              LaneOf(_buffers(h[sigs[dff.ports[3]]]), i) # Lane1
        THEN Result(h, sigs[dff.ports[1]], FALSE)
        ELSE IF Len(dff.ports) > 3
        THEN updated(zeros(h, n), sigs[dff.ports[2]], sigs[dff.ports[4]])
        ELSE Result(h, sigs[dff.ports[2]], FALSE)

\* the next state of one dff from the current D and reset tensors: a fresh
\* tensor written by the backend when there is a reset (the backend raising
\* where the arrays do not fit), D's own tensor otherwise
DffNext(sigs, h, dff, n) ==
    LET updated(r, d_val, rst_val) ==
            IF dff_update_error(_buffers(r.heap[r.ref]), _buffers(r.heap[d_val]),
                                _buffers(r.heap[rst_val])) # "none"
            THEN Result(h, NoRef, TRUE)
            ELSE Result(Put(r.heap, r.ref,
                            Written(r.heap[r.ref],
                                    dff_update(_buffers(r.heap[r.ref]), _buffers(r.heap[d_val]),
                                               _buffers(r.heap[rst_val]), n))),
                        r.ref, FALSE)
    IN  IF Len(dff.ports) > 3
        THEN updated(zeros(h, n), sigs[dff.ports[2]], sigs[dff.ports[4]])
        ELSE Result(h, sigs[dff.ports[2]], FALSE)

\* for dff in self.dffs: ... dff_updates.append((q_name, q_next))
RECURSIVE DffUpdates(_, _, _, _, _)
DffUpdates(sigs, h, dffs, n, dff_updates) ==
    IF dffs = <<>> THEN [heap |-> h, dff_updates |-> dff_updates, raised |-> FALSE]
    ELSE LET next(r) ==
                 IF r.raised THEN [heap |-> h, dff_updates |-> dff_updates, raised |-> TRUE]
                 ELSE DffUpdates(sigs, r.heap, Tail(dffs), n,
                                 Append(dff_updates, <<Head(dffs).ports[1], r.ref>>))
         IN  next(DffNext(sigs, h, Head(dffs), n))

\* 3. Apply Updates: for q_name, q_next in dff_updates
RECURSIVE ApplyUpdates(_, _)
ApplyUpdates(sigs, dff_updates) ==
    IF dff_updates = <<>> THEN sigs
    ELSE ApplyUpdates(Bind(sigs, Head(dff_updates)[1], Head(dff_updates)[2]), Tail(dff_updates))

\* a plausible slip: each dff publishes its Q as soon as it is computed
RECURSIVE dff_phase_immediate(_, _, _)
dff_phase_immediate(st, dffs, n) ==
    IF dffs = <<>> \/ st.raised THEN st
    ELSE LET next(r) ==
                 dff_phase_immediate(StepState(Bind(st.signals, Head(dffs).ports[1], r.ref),
                                               r.heap, FALSE),
                                     Tail(dffs), n)
         IN  next(DffNext(st.signals, st.heap, Head(dffs), n))

\* 2. + 3. Sequential Logic: all next states are computed, then all are applied;
\* an exception while computing them leaves the flip-flops as they were
dff_phase(st, dffs, n) ==
    IF st.raised THEN st
    ELSE LET applied(u) ==
                 IF u.raised THEN StepState(st.signals, st.heap, TRUE)
                 ELSE StepState(ApplyUpdates(st.signals, u.dff_updates), u.heap, FALSE)
         IN  applied(DffUpdates(st.signals, st.heap, dffs, n, <<>>))

\* a plausible slip: the flip-flops are clocked before the gates are evaluated
Chip_step_dff_first(self, h) ==
    comb_phase(dff_phase(StepState(self.signals, h, FALSE), self.dffs, self.batch_size),
               self.sorted_gates)

\* Chip.step
Chip_step(self, h) ==
    dff_phase(comb_phase(StepState(self.signals, h, FALSE), self.sorted_gates),
              self.dffs, self.batch_size)

\* Chip.set_input: TRUE when it raises
set_input_raises(self, name) == name \notin DOMAIN self.signals

\* Chip.set_input: the name is rebound to the caller's tensor
set_input(self, name, value_tensor) == [self EXCEPT !.signals[name] = value_tensor]

\* Chip.get_output
get_output(self, name) == self.signals[name]

\* ------------------------------------------------------------------ netlists
Netlist(name, inputs, outputs, wires, insts) ==
    [name |-> name, inputs |-> inputs, outputs |-> outputs, wires |-> wires, instances |-> insts]

\* every declaration order of a gate list
Perms(insts) ==
    { [i \in 1..Len(insts) |-> insts[p[i]]] :
        p \in { f \in [1..Len(insts) -> 1..Len(insts)] :
                  \A i, j \in 1..Len(insts) : f[i] = f[j] => i = j } }

Orders(nl) == { [nl EXCEPT !.instances = o] : o \in Perms(nl.instances) }

\* q1 <- DFF(q2), q2 <- DFF(q1), no reset port
NL_swap ==
    Netlist("swap", <<>>, <<"q1", "q2">>, <<>>,
            << Gate("dff", "f1", <<"q1", "q2", "clk">>),
               Gate("dff", "f2", <<"q2", "q1", "clk">>) >>)

\* the same with a shared reset
NL_swap_rst ==
    Netlist("swap_rst", <<"rst">>, <<"q1", "q2">>, <<>>,
            << Gate("dff", "f1", <<"q1", "q2", "clk", "rst">>),
               Gate("dff", "f2", <<"q2", "q1", "clk", "rst">>) >>)

\* a flip-flop fed by the inverse of its own output
NL_toggle ==
    Netlist("toggle", <<"rst">>, <<"q">>, <<"n">>,
            << Gate("not", "g1", <<"n", "q">>),
               Gate("dff", "f1", <<"q", "n", "clk", "rst">>) >>)

\* tests/test_compiler.py, test_sequential_dff, with the flip-flop declared without a reset port
NL_seq_norst ==
    Netlist("test_seq_norst", <<"d">>, <<"q">>, <<>>,
            << Gate("dff", "f1", <<"q", "d", "clk">>) >>)

\* tests/test_compiler.py, test_simple_combinational: y = (a & b) | ~a
NL_comb ==
    Netlist("test_comb", <<"a", "b">>, <<"y">>, <<"n1">>,
            << Gate("and", "g1", <<"n1", "a", "b">>),
               Gate("or", "g2", <<"y", "n1", "a_inv">>),
               Gate("not", "g3", <<"a_inv", "a">>) >>)

\* a reset-less toggle declared sequential-first: d = ~q feeds the flip-flop, y = q
NL_pipe ==
    Netlist("pipe", <<>>, <<"y">>, <<"n">>,
            << Gate("dff", "f1", <<"q", "n", "clk">>),
               Gate("buf", "g2", <<"y", "q">>),
               Gate("not", "g1", <<"n", "q">>) >>)

\* two gates over the same pair of inputs: y = a ^ b, z = a | b
NL_gates ==
    Netlist("gates", <<"a", "b">>, <<"y", "z">>, <<>>,
            << Gate("xor", "g1", <<"y", "a", "b">>),
               Gate("or", "g2", <<"z", "a", "b">>) >>)

Netlists ==
    Orders(NL_swap) \cup Orders(NL_swap_rst) \cup Orders(NL_toggle)
        \cup {NL_seq_norst, NL_comb, NL_pipe, NL_gates}

SeqNetlists == {NL_seq_norst}

\* netlists a well-formed design never has: a two-gate combinational loop, a
\* gate reading its own output, two gates writing y, a gate and a dff writing y
BadNetlists ==
    { Netlist("loop", <<"a">>, <<"y">>, <<"x">>,
              << Gate("and", "g1", <<"x", "a", "y">>),
                 Gate("not", "g2", <<"y", "x">>) >>),
      Netlist("self", <<"a">>, <<"y">>, <<>>,
              << Gate("or", "g1", <<"y", "a", "y">>) >>),
      Netlist("dup", <<"a", "b">>, <<"y">>, <<>>,
              << Gate("and", "g1", <<"y", "a", "b">>),
                 Gate("or", "g2", <<"y", "a", "b">>) >>),
      Netlist("dup_dff", <<"a", "d">>, <<"y">>, <<>>,
              << Gate("dff", "f1", <<"y", "d", "clk">>),
                 Gate("not", "g1", <<"y", "a">>) >>) }

\* ------------------------------------------------------------------ chip bench
\* A driver constructs one Chip and then calls set_input and step() in any order.
ChipOff == chip = NoChip /\ clast = "off" /\ ff = NoFF

Range(f) == {f[x] : x \in DOMAIN f}

RECURSIVE Dedup(_, _)
Dedup(names, seen) ==
    IF names = <<>> THEN <<>>
    ELSE IF Head(names) \in seen THEN Dedup(Tail(names), seen)
    ELSE <<Head(names)>> \o Dedup(Tail(names), seen \cup {Head(names)})

\* the signal names in the order of their declaration
NameSeq(c) == Dedup(c.inputs \o c.outputs \o c.wires \o AllPorts(c.instances), {})

\* the references the driver's objects hold: the Chip's signal store, then ff.q
ChipRefs(c, f) ==
    LET held(names) == [k \in 1..Len(names) |-> c.signals[names[k]]] \o <<f.q>>
    IN  held(NameSeq(c))

\* the Chip with its signal store under a renaming of the heap
Rebound(c, m) == [c EXCEPT !.signals = [x \in DOMAIN c.signals |-> Renamed(m, c.signals[x])]]

\* the names the driver drives: the declared inputs and the flip-flop outputs
DriveNames(c) == Range(c.inputs) \cup {c.dffs[i].ports[1] : i \in 1..Len(c.dffs)}

\* the driver's state after a call left the signal store c and the heap h
C_settle(c, h, m) == chip' = Rebound(c, m) /\ heap' = Collect(h, m)

C_after(c, h) == C_settle(c, h, Renaming(heap, ChipRefs(c, ff)))

C_called(r, name) == C_after(set_input(chip, name, r.ref), r.heap)

C_stepped(r) ==
    /\ C_after([chip EXCEPT !.signals = r.signals], r.heap)
    /\ clast' = IF r.raised THEN "step_raised" ELSE "step"

F_stepped(r) == heap' = Collect(r.heap, Renaming(heap, ChipRefs(chip, ff)))

\* chip.set_input(name, LogicTensor.from_host(data_v, data_s))
C_set_input ==
    /\ clast # "off"
    /\ \E name \in DriveNames(chip) :
       \E data_v \in [1..chip.batch_size -> 0..1], data_s \in [1..chip.batch_size -> 0..1] :
          /\ ~set_input_raises(chip, name)
          /\ C_called(from_host(heap, data_v, data_s, DEFAULT_BACKEND), name)
    /\ clast' = "set_input"
    /\ UNCHANGED ff

\* chip.step()
C_step ==
    /\ clast # "off"
    /\ C_stepped(Chip_step(chip, heap))
    /\ UNCHANGED ff

\* ff.step(chip.signals["d"], core.zeros(ff.batch_size)): the reset driven strong 0
F_step_with(r) == F_stepped(DFlipFlop_step(r.heap, ff, chip.signals["d"], r.ref))

F_step ==
    /\ clast # "off"
    /\ ff # NoFF
    /\ "d" \in DOMAIN chip.signals
    /\ F_step_with(zeros(heap, ff.batch_size))
    /\ clast' = "ff_step"
    /\ UNCHANGED <<chip, ff>>

\* ff.step(chip.signals["d"])
F_step_noreset ==
    /\ clast # "off"
    /\ ff # NoFF
    /\ "d" \in DOMAIN chip.signals
    /\ F_stepped(DFlipFlop_step(heap, ff, chip.signals["d"], NoRef))
    /\ clast' = "ff_step_noreset"
    /\ UNCHANGED <<chip, ff>>

\* ------------------------------------------------------------------ FaultCampaign
\* LogicTensor.__init__ called with the keyword arguments kwargs: a keyword the
\* signature does not have is a TypeError; v_data and s_data wrap the buffers
\* given; batch_size alone allocates
LogicTensor_init(h, kwargs) ==
    LET wrapped(id) ==
            Result(Put(h, id, [backend |-> DEFAULT_BACKEND,
                               batch_size |-> IF "batch_size" \in DOMAIN kwargs
                                              THEN kwargs.batch_size ELSE Len(kwargs.v_data),
                               v_data |-> kwargs.v_data, s_data |-> kwargs.s_data]),
                   id, FALSE)
    IN  IF ~(DOMAIN kwargs \subseteq {"batch_size", "backend", "v_data", "s_data"})
        THEN Result(h, NoRef, TRUE)
        ELSE IF {"v_data", "s_data"} \subseteq DOMAIN kwargs THEN wrapped(NewId(h))
        ELSE IF "batch_size" \in DOMAIN kwargs
        THEN LogicTensor(h, kwargs.batch_size, DEFAULT_BACKEND)
        ELSE Result(h, NoRef, TRUE)

NoFC == [batch_size |-> 0, fault_list |-> <<>>, next_free_index |-> 0]

\* what a call that raised returned
NoRet == [raised |-> TRUE]

\* FaultCampaign.__init__
FaultCampaign(batch_size) ==
    [batch_size |-> batch_size, fault_list |-> <<>>, next_free_index |-> 1]

\* a plausible slip: the capacity test lets the index reach batch_size
add_fault_offbyone(self, name, fault_type) ==
    IF self.next_free_index > self.batch_size
    THEN [self |-> self, ret |-> NoRet]
    ELSE [self |-> [self EXCEPT
                       !.fault_list = Append(@, [name |-> name, type |-> fault_type,
                                                 index |-> self.next_free_index]),
                       !.next_free_index = @ + 1],
          ret |-> [raised |-> FALSE, idx |-> self.next_free_index]]

\* FaultCampaign.add_fault: the campaign after the call and what the call returned
add_fault(self, name, fault_type) ==
    IF self.next_free_index >= self.batch_size
    THEN [self |-> self, ret |-> NoRet]
    ELSE [self |-> [self EXCEPT
                       !.fault_list = Append(@, [name |-> name, type |-> fault_type,
                                                 index |-> self.next_free_index]),
                       !.next_free_index = @ + 1],
          ret |-> [raised |-> FALSE, idx |-> self.next_free_index]]

\* the host array get_masks fills: position t_idx (Python's index, lane t_idx + 1
\* of the sequence) holds what the last fault on the signal with that index wrote
HostMask(self, current_signal_name, written) ==
    [i \in 1..self.batch_size |->
        LET hits == {k \in 1..Len(self.fault_list) :
                        /\ self.fault_list[k].name = current_signal_name
                        /\ self.fault_list[k].index = i - 1}
        IN  IF hits = {} THEN 0
            ELSE written[CHOOSE k \in hits : \A j \in hits : j <= k]]

\* FaultCampaign.get_masks: the two host arrays are filled, then each is handed
\* to LogicTensor(data_v=..., data_s=...)
get_masks(h, self, current_signal_name) ==
    LET ones_host == [i \in 1..self.batch_size |-> 1]
        en_host == HostMask(self, current_signal_name, [k \in 1..Len(self.fault_list) |-> 1])
        val_host == HostMask(self, current_signal_name,
                             [k \in 1..Len(self.fault_list) |-> self.fault_list[k].type])
        returned(en, val) ==
            IF val.raised THEN [heap |-> h, raised |-> TRUE]
            ELSE [heap |-> val.heap, raised |-> FALSE, en |-> en.ref, val |-> val.ref]
        second(en) ==
            IF en.raised THEN [heap |-> h, raised |-> TRUE]
            ELSE returned(en, LogicTensor_init(en.heap, [data_v |-> val_host, data_s |-> ones_host]))
    IN  second(LogicTensor_init(h, [data_v |-> en_host, data_s |-> ones_host]))

\* ------------------------------------------------------------------ fault bench
\* A driver constructs one FaultCampaign, registers faults and asks for masks.
FaultOff == fc = NoFC /\ flast = "off" /\ fret = NoRet

\* the signal names the driver registers faults on
FaultNames == {"a", "b"}

FC_added(r) ==
    /\ fc' = r.self
    /\ fret' = r.ret
    /\ flast' = IF r.ret.raised THEN "add_fault_raised" ELSE "add_fault"

\* fc.add_fault(name, fault_type)
FC_add_fault ==
    /\ flast # "off"
    /\ \E name \in FaultNames, fault_type \in 0..MaxStuck : FC_added(add_fault(fc, name, fault_type))
    /\ UNCHANGED heap

\* the masks are read back with cpu() and dropped
FC_masked(r) ==
    /\ fret' = IF r.raised THEN NoRet
               ELSE [raised |-> FALSE, en |-> cpu(r.heap, r.en), val |-> cpu(r.heap, r.val)]
    /\ flast' = IF r.raised THEN "get_masks_raised" ELSE "get_masks"

\* fc.get_masks(name)
FC_get_masks ==
    /\ flast # "off"
    /\ \E name \in FaultNames : FC_masked(get_masks(heap, fc, name))
    /\ UNCHANGED <<heap, fc>>

\* ------------------------------------------------------------------ ScanChain
NoScan == [chain |-> <<>>, length |-> 0]

\* ScanChain.__init__
ScanChain(registers) == [chain |-> registers, length |-> Len(registers)]

\* CpuBackend.get_device_array: a copy of the host array
get_device_array(host_data) == host_data

\* pattern[:, i]: one entry per row of the matrix (a pattern is the sequence of its rows)
Column(pattern, i) == [r \in 1..Len(pattern) |-> pattern[r][i]]

\* pattern_x=None
NoPattern == <<>>

\* a plausible slip: only the value array of the register is replaced
ScanWrite_values_only(obj, col_val, col_x) == [obj EXCEPT !.v_data = get_device_array(col_val)]

\* reg.q.v_data = backend.get_device_array(col_val); reg.q.s_data = backend.get_device_array(col_x)
ScanWrite(obj, col_val, col_x) ==
    [obj EXCEPT !.v_data = get_device_array(col_val), !.s_data = get_device_array(col_x)]

\* for i, reg in enumerate(self.chain), from register i on: a strength matrix
\* without column i stops the loop with the registers before i already written
RECURSIVE ScanLoop(_, _, _, _, _)
ScanLoop(h, self, pattern_val, pattern_x, i) ==
    IF i > self.length THEN Result(h, NoRef, FALSE)
    ELSE IF pattern_x # NoPattern /\ i > Len(pattern_x[1]) THEN Result(h, NoRef, TRUE)
    ELSE ScanLoop(Put(h, self.chain[i].q,
                      ScanWrite(h[self.chain[i].q], Column(pattern_val, i),
                                IF pattern_x # NoPattern THEN Column(pattern_x, i)
                                ELSE [r \in 1..self.chain[i].batch_size |-> 1])),
                  self, pattern_val, pattern_x, i + 1)

\* ScanChain.scan_load: only the width of pattern_val is tested
scan_load(h, self, pattern_val, pattern_x) ==
    IF Len(pattern_val[1]) # self.length THEN Result(h, NoRef, TRUE)
    ELSE ScanLoop(h, self, pattern_val, pattern_x, 1)

\* ------------------------------------------------------------------ scan bench
\* A driver builds ScanLen flip-flops of ChipBatch lanes, binds them in a
\* ScanChain, and then loads patterns or clocks the chain as a shift register.
ScanOff == scan = NoScan /\ slast = [op |-> "off"]

\* registers = [DFlipFlop(n) for _ in range(k)]
RECURSIVE Registers(_, _, _, _)
Registers(h, k, n, registers) ==
    IF k = 0 THEN [heap |-> h, registers |-> registers]
    ELSE LET made(r) == Registers(r.heap, k - 1, n, Append(registers, r.ff))
         IN  made(DFlipFlop(h, n))

\* the rows x cols matrices over 0..1, and the one holding e everywhere
Matrices(rows, cols) == [1..rows -> [1..cols -> 0..1]]
Const(rows, cols, e) == [r \in 1..rows |-> [c \in 1..cols |-> e]]

\* the arguments the driver loads with: every N x K matrix of bits with no
\* strength matrix or with one holding a single 0 in its first row; a value
\* matrix with a column or with a row too many; a strength matrix with a
\* column missing or with a row too many
ScanLoads(n, k) ==
    (Matrices(n, k)
        \X ({NoPattern}
               \cup {[r \in 1..n |-> [c \in 1..k |-> IF r = 1 /\ c = x THEN 0 ELSE 1]] :
                        x \in 1..k}))
        \cup ({Const(n, k + 1, 0), Const(n + 1, k, 1)} \X {NoPattern})
        \cup ({Const(n, k, 1)} \X {Const(n, k - 1, 1), Const(n + 1, k, 1)})

\* the chain's registers are the objects that live on after a call: the
\* temporaries a call made are gone
S_settle(h) == heap' = [id \in DOMAIN heap |-> h[id]]

S_loaded(r, pattern_val, pattern_x) ==
    /\ S_settle(r.heap)
    /\ slast' = [op |-> "scan_load", pattern_val |-> pattern_val, pattern_x |-> pattern_x,
                 raised |-> r.raised]

\* scan.scan_load(pattern_val, pattern_x)
S_scan_load ==
    /\ slast.op # "off"
    /\ \E args \in ScanLoads(ChipBatch, scan.length) :
          S_loaded(scan_load(heap, scan, args[1], args[2]), args[1], args[2])
    /\ UNCHANGED scan

\* a plausible slip: the registers are clocked from the scan-in end, each one
\* reading what its predecessor has just captured
RECURSIVE ShiftCycle_ripple(_, _, _, _)
ShiftCycle_ripple(h, chain, d, j) ==
    IF j = 0 THEN Result(h, NoRef, FALSE)
    ELSE LET next(r) ==
                 IF r.raised THEN r
                 ELSE DFlipFlop_step(r.heap, chain[j], IF j = 1 THEN d ELSE chain[j - 1].q, NoRef)
         IN  next(ShiftCycle_ripple(h, chain, d, j - 1))

\* one shift cycle with a simultaneous edge on registers that update in place:
\* for j in reversed(range(K)): chain[j].step(chain[j-1].q if j else d), so
\* that every register captures what its predecessor held before the edge
RECURSIVE ShiftCycle(_, _, _, _)
ShiftCycle(h, chain, d, j) ==
    IF j = 0 THEN Result(h, NoRef, FALSE)
    ELSE LET next(r) == IF r.raised THEN r ELSE ShiftCycle(r.heap, chain, d, j - 1)
         IN  next(DFlipFlop_step(h, chain[j], IF j = 1 THEN d ELSE chain[j - 1].q, NoRef))

S_shifted(r) ==
    /\ S_settle(r.heap)
    /\ slast' = [op |-> "shift", raised |-> r.raised]

S_shift_in(d) == S_shifted(ShiftCycle(d.heap, scan.chain, d.ref, scan.length))

\* one shift cycle with scan-in LogicTensor.from_host(data_v, data_s), every
\* lane of the scan-in holding the same one of 0, 1, X and Z
S_shift ==
    /\ slast.op # "off"
    /\ \E v \in 0..1, s \in 0..1 :
          S_shift_in(from_host(heap, [i \in 1..ChipBatch |-> v], [i \in 1..ChipBatch |-> s],
                               DEFAULT_BACKEND))
    /\ UNCHANGED scan

\* ------------------------------------------------------------------ fault simulation bench
\* tests/test_fault_injection.py carried onto a Chip: the driver registers
\* faults, drives every lane of an input alike, forces the campaign's masks
\* onto a signal, steps and reads an output.

\* n = a ^ b, y = ~n
NL_fault ==
    Netlist("fault", <<"a", "b">>, <<"y">>, <<"n">>,
            << Gate("xor", "g1", <<"n", "a", "b">>),
               Gate("not", "g2", <<"y", "n">>) >>)

\* the names the driver uses: among them one the netlist does not have
ProbeNames == {"a", "b", "n", "y", "ghost"}

\* campaign.add_fault(name, fault_type)
P_add_fault ==
    /\ flast # "off"
    /\ \E name \in ProbeNames \ {"b", "y"}, fault_type \in 0..1 :
          FC_added(add_fault(fc, name, fault_type))
    /\ UNCHANGED <<heap, chip, clast, ff>>

\* chip.set_input(name, LogicTensor.from_host(data_v, data_s)), every lane
\* driven alike and strong
P_set_input ==
    /\ clast # "off"
    /\ \E name \in ProbeNames \ {"n", "y"}, v \in 0..1 :
          LET called(r) ==
                  IF set_input_raises(chip, name)
                  THEN clast' = "set_input_raised" /\ UNCHANGED <<heap, chip>>
                  ELSE clast' = "set_input" /\ C_called(r, name)
          IN  called(from_host(heap, [i \in 1..chip.batch_size |-> v],
                               [i \in 1..chip.batch_size |-> 1], DEFAULT_BACKEND))
    /\ UNCHANGED <<ff, fc, flast, fret>>

\* chip.signals[name].force(*campaign.get_masks(name)), for a signal that has
\* faults registered
P_force ==
    /\ clast # "off"
    /\ \E name \in {fc.fault_list[k].name : k \in 1..Len(fc.fault_list)} \cap DOMAIN chip.signals :
          LET forced(r) ==
                  /\ C_after(chip, r.heap)
                  /\ clast' = IF r.raised THEN "force_raised" ELSE "force"
              masked(m) ==
                  /\ FC_masked(m)
                  /\ IF m.raised THEN clast' = "force_raised" /\ UNCHANGED <<heap, chip>>
                     ELSE forced(force(m.heap, chip.signals[name], m.en, m.val))
          IN  masked(get_masks(heap, fc, name))
    /\ UNCHANGED <<ff, fc>>

\* chip.get_output(name): the tensor is read back with cpu() and dropped
P_get_output ==
    /\ clast # "off"
    /\ \E name \in ProbeNames \ {"a", "b", "n"} :
          clast' = IF name \in DOMAIN chip.signals THEN "get_output" ELSE "get_output_raised"
    /\ UNCHANGED <<heap, chip, ff, fc, flast, fret>>

\* ------------------------------------------------------------------ mixed-size bench
\* A driver hands a Chip, and a stand-alone DFlipFlop, tensors whose batch
\* size is the Chip's, one more, or one.

\* y = d & r and q <- DFF(d) without reset; q <- DFF(d) with reset r
MixNetlists ==
    { Netlist("mix", <<"d", "r">>, <<"y", "q">>, <<>>,
              << Gate("and", "g1", <<"y", "d", "r">>),
                 Gate("dff", "f1", <<"q", "d", "clk">>) >>),
      Netlist("mix_rst", <<"d", "r">>, <<"q">>, <<>>,
              << Gate("dff", "f1", <<"q", "d", "clk", "r">>) >>) }

\* chip.set_input(name, LogicTensor.from_host(data_v, data_s)) with n lanes
X_set_input ==
    /\ clast # "off"
    /\ \E name \in Range(chip.inputs), n \in {chip.batch_size, chip.batch_size + 1, 1},
          v \in 0..1 :
          C_called(from_host(heap, [i \in 1..n |-> v], [i \in 1..n |-> 1], DEFAULT_BACKEND),
                   name)
    /\ clast' = "set_input"
    /\ UNCHANGED ff

\* ff.step(chip.signals["d"]) and ff.step(chip.signals["d"], chip.signals["r"])
X_ff_step ==
    /\ clast # "off"
    /\ \E reset \in {NoRef, chip.signals["r"]} :
          LET stepped(r) ==
                  /\ F_stepped(r)
                  /\ clast' = IF r.raised THEN "ff_step_raised" ELSE "ff_step"
          IN  stepped(DFlipFlop_step(heap, ff, chip.signals["d"], reset))
    /\ UNCHANGED <<chip, ff>>

\* ------------------------------------------------------------------ Monitor
NoMon == [names |-> <<>>, signals |-> <<>>, instance_id |-> 0, history |-> <<>>, time |-> <<>>,
          cycle |-> 0]

\* Monitor.__init__: signals is the dict handed in (names is its key order),
\* not a copy of the tensors
Monitor(names, signals) ==
    [names |-> names, signals |-> signals, instance_id |-> 0,
     history |-> [k \in DOMAIN signals |-> <<>>], time |-> <<>>, cycle |-> 0]

\* twice the plot value of a lane: float(v_val) if s_val == 1 else 0.5
PlotValue(lane) == IF lane.s = 1 THEN 2 * lane.v ELSE 1

\* the loop of Monitor.sample: v_data.copy_to_host() is a method of the CUDA
\* backend's device arrays; the CPU backend's buffers are numpy arrays, which
\* have none (AttributeError)
RECURSIVE SampleLoop(_, _, _, _)
SampleLoop(h, self, names, history) ==
    IF names = <<>> THEN [history |-> history, raised |-> FALSE]
    ELSE IF h[self.signals[Head(names)]].backend = "cpu"
    THEN [history |-> history, raised |-> TRUE]
    ELSE SampleLoop(h, self, Tail(names),
                    [history EXCEPT
                        ![Head(names)] =
                            Append(@, PlotValue(LaneOf(_buffers(h[self.signals[Head(names)]]),
                                                       self.instance_id + 1)))])

\* Monitor.sample: the monitor after the call and whether the call raised
sample(h, self) ==
    LET timed == [self EXCEPT !.time = Append(@, self.cycle)]
        done(r) ==
            [self |-> [timed EXCEPT !.history = r.history,
                                    !.cycle = IF r.raised THEN @ ELSE @ + 1],
             raised |-> r.raised]
    IN  done(SampleLoop(h, self, self.names, self.history))

\* ------------------------------------------------------------------ monitor bench
\* cli.py, cmd_sim_vcd: a Monitor over the Chip's input and output tensors;
\* the driver replaces inputs, steps and samples.
MaxSamples == 2

\* the driver's state after a call left the signal store c and the heap h: the
\* Monitor's references keep their tensors alive
M_after(c, h) ==
    LET settle(m) ==
            /\ C_settle(c, h, m)
            /\ mon' = [mon EXCEPT !.signals = [x \in DOMAIN mon.signals |->
                                                 Renamed(m, mon.signals[x])]]
    IN  settle(Renaming(heap, ChipRefs(c, ff)
                                 \o [k \in 1..Len(mon.names) |-> mon.signals[mon.names[k]]]))

\* chip.set_input(inp, cv.randint(0, 2, n))
M_set_input ==
    /\ mlast # "off"
    /\ \E name \in Range(chip.inputs), data_v \in [1..chip.batch_size -> 0..1] :
          LET called(r) == M_after(set_input(chip, name, r.ref), r.heap)
          IN  called(from_host(heap, data_v, [i \in 1..chip.batch_size |-> 1],
                               DEFAULT_BACKEND))
    /\ clast' = "set_input"
    /\ UNCHANGED <<ff, mlast>>

\* chip.step()
M_step ==
    /\ mlast # "off"
    /\ LET stepped(r) ==
               /\ M_after([chip EXCEPT !.signals = r.signals], r.heap)
               /\ clast' = IF r.raised THEN "step_raised" ELSE "step"
       IN  stepped(Chip_step(chip, heap))
    /\ UNCHANGED <<ff, mlast>>

\* monitor.sample()
M_sample ==
    /\ mlast # "off"
    /\ Len(mon.time) < MaxSamples
    /\ LET sampled(r) ==
               /\ mon' = r.self
               /\ mlast' = IF r.raised THEN "sample_raised" ELSE "sample"
       IN  sampled(sample(heap, mon))
    /\ UNCHANGED <<heap, chip, clast, ff>>

MonOff == mon = NoMon /\ mlast = "off"

\* ------------------------------------------------------------------ DebugPort
\* reg_map holds one entry under the register's name and the same entry under
\* its address; a target is [name |-> ...] or [addr |-> ...]
NoDebug == [reg_map |-> <<>>]

\* DebugPort.__init__
DebugPort == [reg_map |-> [by_name |-> [x \in {} |-> 0], by_addr |-> [x \in {} |-> 0]]]

\* DebugPort.add_register
add_register(self, name, address, tensor_ref) ==
    LET entry == [name |-> name, addr |-> address, ref |-> tensor_ref]
    IN  [reg_map |->
            [by_name |-> [x \in (DOMAIN self.reg_map.by_name) \cup {name} |->
                             IF x = name THEN entry ELSE self.reg_map.by_name[x]],
             by_addr |-> [x \in (DOMAIN self.reg_map.by_addr) \cup {address} |->
                             IF x = address THEN entry ELSE self.reg_map.by_addr[x]]]]

\* target in self.reg_map
Registered(self, target) ==
    IF "name" \in DOMAIN target THEN target.name \in DOMAIN self.reg_map.by_name
    ELSE target.addr \in DOMAIN self.reg_map.by_addr

\* self.reg_map[target]
Entry(self, target) ==
    IF "name" \in DOMAIN target THEN self.reg_map.by_name[target.name]
    ELSE self.reg_map.by_addr[target.addr]

\* tensor.v_data = final_state.v_data; tensor.s_data = final_state.s_data
DebugPort_assign(h, tensor, final_state) ==
    Put(h, tensor, [h[tensor] EXCEPT !.v_data = h[final_state].v_data,
                                     !.s_data = h[final_state].s_data])

\* DebugPort.write: value is [int |-> w] or [tensor |-> ref], mask a reference
\* or NoRef for None; the new state is (mask & value) | (~mask & old), built
\* from fresh tensors and then put into the register's own tensor
DebugPort_write(h, self, target, value, mask) ==
    LET assigned(tensor, final_state) ==
            IF final_state.raised THEN Result(h, NoRef, TRUE)
            ELSE Result(DebugPort_assign(final_state.heap, tensor, final_state.ref),
                        NoRef, FALSE)
        joined(term_new, term_old) ==
            IF term_old.raised THEN term_old ELSE __or__(term_old.heap, term_new, term_old.ref)
        held(tensor, term_new, not_mask) ==
            joined(term_new, __and__(not_mask.heap, not_mask.ref, tensor))
        overwritten(tensor, mask_t, term_new) ==
            IF term_new.raised THEN term_new
            ELSE held(tensor, term_new.ref, __invert__(term_new.heap, mask_t))
        masked(tensor, val_tensor, mask_t) ==
            assigned(tensor,
                     overwritten(tensor, mask_t.ref,
                                 __and__(mask_t.heap, mask_t.ref, val_tensor)))
        standard(tensor, val_tensor) ==
            masked(tensor, val_tensor.ref,
                   IF mask = NoRef
                   THEN from_host(val_tensor.heap, [i \in 1..h[tensor].batch_size |-> 1],
                                  [i \in 1..h[tensor].batch_size |-> 1], h[tensor].backend)
                   ELSE Result(val_tensor.heap, mask, FALSE))
        poke(tensor) ==
            standard(tensor,
                     IF "int" \in DOMAIN value
                     THEN from_host(h, [i \in 1..h[tensor].batch_size |-> value.int],
                                    [i \in 1..h[tensor].batch_size |-> 1], h[tensor].backend)
                     ELSE Result(h, value.tensor, FALSE))
    IN  IF ~Registered(self, target) THEN Result(h, NoRef, TRUE)
        ELSE poke(Entry(self, target).ref)

\* DebugPort.read: the (values, strengths) of the register, or KeyError
DebugPort_read(h, self, target) ==
    IF ~Registered(self, target) THEN [raised |-> TRUE]
    ELSE [raised |-> FALSE, ret |-> cpu(h, Entry(self, target).ref)]

\* ------------------------------------------------------------------ debug bench
\* tests/test_silicon_lifecycle.py: a DFlipFlop whose q is registered in a
\* DebugPort and which is the only register of a ScanChain; the driver clocks
\* the flip-flop, loads the chain, and pokes and peeks through the port.
DebugOff == dbg = NoDebug

\* the targets the driver names: the register by name and by address, and a
\* name that was never registered
DebugTargets == {[name |-> "SECURE_EN"], [addr |-> 256], [name |-> "ghost"]}

\* a tensor holding the lane (v, s) on each of n lanes
Uniform(h, n, v, s) ==
    from_host(h, [i \in 1..n |-> v], [i \in 1..n |-> s], DEFAULT_BACKEND)

\* secure_reg.step(d) or secure_reg.step(d, reset), d and reset made by from_host
D_step ==
    /\ slast.op # "off"
    /\ \E dv \in 0..1, ds \in 0..1, with_reset \in BOOLEAN, rv \in 0..1, rs \in 0..1 :
          LET stepped(d, rst, r) ==
                  /\ S_settle(r.heap)
                  /\ slast' = [op |-> "step", d |-> [v |-> dv, s |-> ds],
                               reset |-> IF with_reset THEN [v |-> rv, s |-> rs] ELSE Lane0,
                               raised |-> r.raised, ret |-> r.ref]
              clocked(d, rst) ==
                  stepped(d, rst,
                          DFlipFlop_step(rst.heap, ff, d.ref,
                                         IF with_reset THEN rst.ref ELSE NoRef))
              driven(d) == clocked(d, Uniform(d.heap, ff.batch_size, rv, rs))
          IN  /\ ~with_reset => rv = 0 /\ rs = 0
              /\ driven(Uniform(heap, ff.batch_size, dv, ds))
    /\ UNCHANGED <<ff, scan, dbg>>

\* scan.scan_load(pattern_val) and scan.scan_load(pattern_val, pattern_x) with N x K matrices
D_scan_load ==
    /\ slast.op # "off"
    /\ \E pattern_val \in Matrices(ff.batch_size, scan.length),
          pattern_x \in {NoPattern} \cup Matrices(ff.batch_size, scan.length) :
          S_loaded(scan_load(heap, scan, pattern_val, pattern_x), pattern_val, pattern_x)
    /\ UNCHANGED <<ff, scan, dbg>>

\* ral.write(target, value) and ral.write(target, value, mask): value an int or
\* a tensor, mask a tensor
D_write ==
    /\ slast.op # "off"
    /\ \E target \in DebugTargets, as_int \in BOOLEAN, vv \in 0..1, vs \in 0..1,
          with_mask \in BOOLEAN, mv \in 0..1, ms \in 0..1 :
          LET written(val, m, r) ==
                  /\ S_settle(r.heap)
                  /\ slast' = [op |-> "write", target |-> target,
                               value |-> IF as_int THEN [v |-> vv, s |-> 1]
                                         ELSE [v |-> vv, s |-> vs],
                               mask |-> IF with_mask THEN [v |-> mv, s |-> ms] ELSE Lane1,
                               raised |-> r.raised]
              poked(val, m) ==
                  written(val, m,
                          DebugPort_write(m.heap, dbg, target,
                                          IF as_int THEN [int |-> vv] ELSE [tensor |-> val.ref],
                                          IF with_mask THEN m.ref ELSE NoRef))
              valued(val) == poked(val, Uniform(val.heap, ff.batch_size, mv, ms))
          IN  /\ as_int => vs = 1
              /\ ~with_mask => mv = 1 /\ ms = 1
              /\ valued(Uniform(heap, ff.batch_size, vv, vs))
    /\ UNCHANGED <<ff, scan, dbg>>

\* ral.read(target)
D_read ==
    /\ slast.op # "off"
    /\ \E target \in DebugTargets :
          LET peeked(r) ==
                  slast' = IF r.raised THEN [op |-> "read", target |-> target, raised |-> TRUE]
                           ELSE [op |-> "read", target |-> target, raised |-> FALSE,
                                 ret |-> r.ret]
          IN  peeked(DebugPort_read(heap, dbg, target))
    /\ UNCHANGED <<heap, ff, scan, dbg>>

\* ------------------------------------------------------------------ TAPController
\* IEEE 1149.1 TAP states
TEST_LOGIC_RESET == 0
RUN_TEST_IDLE == 1
SELECT_DR_SCAN == 2
CAPTURE_DR == 3
SHIFT_DR == 4
EXIT1_DR == 5
PAUSE_DR == 6
EXIT2_DR == 7
UPDATE_DR == 8
SELECT_IR_SCAN == 9
CAPTURE_IR == 10
SHIFT_IR == 11
EXIT1_IR == 12
PAUSE_IR == 13
EXIT2_IR == 14
UPDATE_IR == 15

NoTap ==
    [batch_size |-> 0, state |-> NoRef, shift_dr |-> NoRef, update_dr |-> NoRef,
     shift_ir |-> NoRef, update_ir |-> NoRef]

\* TAPController.__init__: the state register and the four control outputs, all strong 0
TAPController(h, batch_size) ==
    LET made(s, sd, ud, si, ui) ==
            [heap |-> ui.heap,
             tap |-> [batch_size |-> batch_size, state |-> s.ref, shift_dr |-> sd.ref,
                      update_dr |-> ud.ref, shift_ir |-> si.ref, update_ir |-> ui.ref]]
        fourth(s, sd, ud, si) == made(s, sd, ud, si, zeros(si.heap, batch_size))
        third(s, sd, ud) == fourth(s, sd, ud, zeros(ud.heap, batch_size))
        second(s, sd) == third(s, sd, zeros(sd.heap, batch_size))
        first(s) == second(s, zeros(s.heap, batch_size))
    IN  first(zeros(h, batch_size))

\* TAPController._get_next_state
_get_next_state(state, tms) ==
    IF tms = 1
    THEN CASE state = TEST_LOGIC_RESET -> TEST_LOGIC_RESET
           [] state = RUN_TEST_IDLE -> SELECT_DR_SCAN
           [] state = SELECT_DR_SCAN -> SELECT_IR_SCAN
           [] state = SELECT_IR_SCAN -> TEST_LOGIC_RESET
           [] state = CAPTURE_DR -> EXIT1_DR
           [] state = SHIFT_DR -> EXIT1_DR
           [] state = EXIT1_DR -> UPDATE_DR
           [] state = PAUSE_DR -> EXIT2_DR
           [] state = EXIT2_DR -> UPDATE_DR
           [] state = UPDATE_DR -> SELECT_DR_SCAN
           [] state = CAPTURE_IR -> EXIT1_IR
           [] state = SHIFT_IR -> EXIT1_IR
           [] state = EXIT1_IR -> UPDATE_IR
           [] state = PAUSE_IR -> EXIT2_IR
           [] state = EXIT2_IR -> UPDATE_IR
           [] state = UPDATE_IR -> SELECT_DR_SCAN
           [] OTHER -> state
    ELSE CASE state = TEST_LOGIC_RESET -> RUN_TEST_IDLE
           [] state = RUN_TEST_IDLE -> RUN_TEST_IDLE
           [] state = SELECT_DR_SCAN -> CAPTURE_DR
           [] state = SELECT_IR_SCAN -> CAPTURE_IR
           [] state = CAPTURE_DR -> SHIFT_DR
           [] state = SHIFT_DR -> SHIFT_DR
           [] state = EXIT1_DR -> PAUSE_DR
           [] state = PAUSE_DR -> PAUSE_DR
           [] state = EXIT2_DR -> SHIFT_DR
           [] state = UPDATE_DR -> RUN_TEST_IDLE
           [] state = CAPTURE_IR -> SHIFT_IR
           [] state = SHIFT_IR -> SHIFT_IR
           [] state = EXIT1_IR -> PAUSE_IR
           [] state = PAUSE_IR -> PAUSE_IR
           [] state = EXIT2_IR -> SHIFT_IR
           [] state = UPDATE_IR -> RUN_TEST_IDLE
           [] OTHER -> state

\* self.<field> = cv.LogicTensor(data_v=..., data_s=np.ones(...)), one field
\* after the other: the first constructor call that raises ends the step with
\* the fields before it already rebound
RECURSIVE TapAssign(_, _, _)
TapAssign(h, self, updates) ==
    IF updates = <<>> THEN [heap |-> h, tap |-> self, raised |-> FALSE]
    ELSE LET made(r) ==
                 IF r.raised THEN [heap |-> h, tap |-> self, raised |-> TRUE]
                 ELSE TapAssign(r.heap, [self EXCEPT ![Head(updates)[1]] = r.ref],
                                Tail(updates))
         IN  made(LogicTensor_init(h, [data_v |-> Head(updates)[2],
                                       data_s |-> [i \in 1..self.batch_size |-> 1]]))

\* TAPController.step: the next state of every lane from the V words of the
\* state and of tms, then the state and the four decoded outputs as new tensors
TAPController_step(h, self, tms, trst_n) ==
    LET decoded(next_s_arr, code) ==
            [i \in 1..self.batch_size |-> IF next_s_arr[i] = code THEN 1 ELSE 0]
        updated(next_s_arr) ==
            TapAssign(h, self,
                      << <<"state", next_s_arr>>,
                         <<"shift_dr", decoded(next_s_arr, SHIFT_DR)>>,
                         <<"update_dr", decoded(next_s_arr, UPDATE_DR)>>,
                         <<"shift_ir", decoded(next_s_arr, SHIFT_IR)>>,
                         <<"update_ir", decoded(next_s_arr, UPDATE_IR)>> >>)
    IN  IF Len(h[tms].v_data) < self.batch_size
        THEN [heap |-> h, tap |-> self, raised |-> TRUE]
        ELSE updated([i \in 1..self.batch_size |->
                         _get_next_state(cpu(h, self.state).v[i], h[tms].v_data[i])])

\* ------------------------------------------------------------------ TAP bench
\* A harness constructs a TAPController, puts it in any of the 16 states
\* (tap.state = LogicTensor.from_host(states, ones)) and then clocks it with a
\* TMS tensor holding the same one of 0, 1, X and Z on every lane.
TapOff == tap = NoTap /\ jlast = [op |-> "off"]

\* the references a TAPController holds
TapRefs(t) == <<t.state, t.shift_dr, t.update_dr, t.shift_ir, t.update_ir>>

\* the controller under a renaming of the heap
TapRebound(t, m) ==
    [t EXCEPT !.state = Renamed(m, t.state), !.shift_dr = Renamed(m, t.shift_dr),
              !.update_dr = Renamed(m, t.update_dr), !.shift_ir = Renamed(m, t.shift_ir),
              !.update_ir = Renamed(m, t.update_ir)]

J_settle(t, h, m) == tap' = TapRebound(t, m) /\ heap' = Collect(h, m)

\* tap.step(tms); ones counts the calls made in a row with TMS strong 1, up to five
J_step ==
    /\ jlast.op # "off"
    /\ \E v \in 0..1, s \in 0..1 :
          LET stepped(r) ==
                  /\ J_settle(r.tap, r.heap, Renaming(heap, TapRefs(r.tap)))
                  /\ jlast' = [op |-> "step", raised |-> r.raised,
                               ones |-> IF v = 1 /\ s = 1
                                        THEN (IF jlast.ones < 5 THEN jlast.ones + 1 ELSE 5)
                                        ELSE 0]
              clocked(tms) == stepped(TAPController_step(tms.heap, tap, tms.ref, NoRef))
          IN  clocked(Uniform(heap, tap.batch_size, v, s))

\* ------------------------------------------------------------------ FuseBank
NoBank == [num_bits |-> 0, batch_size |-> 0, fuses |-> <<>>, q |-> <<>>]

\* [core.zeros(batch_size) for _ in range(k)]
RECURSIVE ZeroList(_, _, _, _)
ZeroList(h, k, batch_size, made) ==
    IF k = 0 THEN [heap |-> h, list |-> made]
    ELSE LET next(r) == ZeroList(r.heap, k - 1, batch_size, Append(made, r.ref))
         IN  next(zeros(h, batch_size))

\* FuseBank.__init__
FuseBank(h, num_bits, batch_size) ==
    LET made(f, q) ==
            [heap |-> q.heap,
             bank |-> [num_bits |-> num_bits, batch_size |-> batch_size,
                       fuses |-> f.list, q |-> q.list]]
        stored(f) == made(f, ZeroList(f.heap, num_bits, batch_size, <<>>))
    IN  stored(ZeroList(h, num_bits, batch_size, <<>>))

\* the position in a list of Python's index k: a negative index counts from the
\* end, 0 when the index is out of range
ListIndex(list, k) ==
    IF 0 <= k /\ k < Len(list) THEN k + 1
    ELSE IF k < 0 /\ -k <= Len(list) THEN Len(list) + k + 1
    ELSE 0

\* a plausible slip: the addressed fuse is overwritten with the burn mask
Burn_overwrite(h, current_val, burn_mask) == Result(h, burn_mask, FALSE)

\* current_val | burn_mask
Burn(h, current_val, burn_mask) == __or__(h, current_val, burn_mask)

\* 1. PROGRAMMING LOGIC: self.fuses[addr] = current_val | (prog_en & wdata)
Program(h, self, prog_en, addr, wdata) ==
    LET stored(r) ==
            IF r.raised THEN [heap |-> h, bank |-> self, raised |-> TRUE]
            ELSE [heap |-> r.heap,
                  bank |-> [self EXCEPT !.fuses[ListIndex(self.fuses, addr)] = r.ref],
                  raised |-> FALSE]
        burnt(burn_mask) ==
            IF burn_mask.raised THEN [heap |-> h, bank |-> self, raised |-> TRUE]
            ELSE stored(Burn(burn_mask.heap, self.fuses[ListIndex(self.fuses, addr)],
                             burn_mask.ref))
    IN  IF ~(addr < self.num_bits) THEN [heap |-> h, bank |-> self, raised |-> FALSE]
        ELSE IF ListIndex(self.fuses, addr) = 0 THEN [heap |-> h, bank |-> self, raised |-> TRUE]
        ELSE burnt(__and__(h, prog_en, wdata))

\* 2. SENSE AMP LOGIC, from bit i on: q[i] = (read_en & fuses[i]) | (not_read & q[i])
RECURSIVE Sense(_, _, _, _, _)
Sense(h, self, read_en, not_read, i) ==
    IF i > self.num_bits THEN [heap |-> h, bank |-> self, raised |-> FALSE]
    ELSE LET stop == [heap |-> h, bank |-> self, raised |-> TRUE]
             latched(r) ==
                 IF r.raised THEN stop
                 ELSE Sense(r.heap, [self EXCEPT !.q[i] = r.ref], read_en, not_read, i + 1)
             held(val_term, hold_term) ==
                 IF hold_term.raised THEN stop
                 ELSE latched(__or__(hold_term.heap, val_term, hold_term.ref))
             read(val_term) ==
                 IF val_term.raised THEN stop
                 ELSE held(val_term.ref, __and__(val_term.heap, not_read, self.q[i]))
         IN  read(__and__(h, read_en, self.fuses[i]))

\* FuseBank.step
FuseBank_step(h, self, read_en, prog_en, addr, wdata) ==
    LET sensed(p, not_read) == Sense(not_read.heap, p.bank, read_en, not_read.ref, 1)
        programmed(p) == IF p.raised THEN p ELSE sensed(p, __invert__(p.heap, read_en))
    IN  programmed(Program(h, self, prog_en, addr, wdata))

\* FuseBank.backdoor_burn
backdoor_burn(h, self, bit_index, mask) ==
    LET stored(r) ==
            IF r.raised THEN [heap |-> h, bank |-> self, raised |-> TRUE]
            ELSE [heap |-> r.heap,
                  bank |-> [self EXCEPT !.fuses[ListIndex(self.fuses, bit_index)] = r.ref],
                  raised |-> FALSE]
    IN  IF bit_index >= self.num_bits \/ ListIndex(self.fuses, bit_index) = 0
        THEN [heap |-> h, bank |-> self, raised |-> TRUE]
        ELSE stored(Burn(h, self.fuses[ListIndex(self.fuses, bit_index)], mask))

\* FuseBank.backdoor_read
backdoor_read(h, self) == [k \in 1..Len(self.fuses) |-> cpu(h, self.fuses[k])]

\* ------------------------------------------------------------------ fuse bench
\* tests/test_silicon_lifecycle.py: a FuseBank of FuseBits bits and ChipBatch
\* lanes; the driver burns through the back door and clocks the bank, every
\* tensor it passes holding the same one of 0, 1, X and Z on every lane, the
\* address running from -1 to one past the last bit. A step() either senses
\* (read_en strong 1) under any prog_en and wdata, or programs with both strong
\* 1 under any read_en.
FuseBits == 2

FuseOff == bank = NoBank /\ blast = [op |-> "off"]

\* the references a FuseBank holds
BankRefs(b) == b.fuses \o b.q

\* the bank under a renaming of the heap
BankRebound(b, m) ==
    [b EXCEPT !.fuses = [k \in 1..Len(b.fuses) |-> Renamed(m, b.fuses[k])],
              !.q = [k \in 1..Len(b.q) |-> Renamed(m, b.q[k])]]

\* the fuse the index names is strong 1 on every lane
Blown(h, b, k) ==
    /\ ListIndex(b.fuses, k) # 0
    /\ \A i \in 1..b.batch_size :
          LaneOf(_buffers(h[b.fuses[ListIndex(b.fuses, k)]]), i) = Lane1

\* the bench after a call; hit tells that the call addressed a blown fuse with
\* an X or Z among the tensors that decide the burn
B_settle(r, op, hit) ==
    /\ bank' = BankRebound(r.bank, Renaming(heap, BankRefs(r.bank)))
    /\ heap' = Collect(r.heap, Renaming(heap, BankRefs(r.bank)))
    /\ blast' = [op |-> op, raised |-> r.raised, hit |-> hit]

\* fuses.step(read_en, prog_en, addr, wdata)
B_step ==
    /\ blast.op # "off"
    /\ \E rv \in 0..1, rs \in 0..1, pv \in 0..1, ps \in 0..1, wv \in 0..1, ws \in 0..1,
          addr \in (-1)..FuseBits :
          LET called(read_en, prog_en, wdata) ==
                  B_settle(FuseBank_step(wdata.heap, bank, read_en.ref, prog_en.ref, addr,
                                         wdata.ref),
                           "step", Blown(heap, bank, addr) /\ (ps = 0 \/ ws = 0))
              written(read_en, prog_en) ==
                  called(read_en, prog_en, Uniform(prog_en.heap, bank.batch_size, wv, ws))
              programmed(read_en) ==
                  written(read_en, Uniform(read_en.heap, bank.batch_size, pv, ps))
          IN  /\ (rv = 1 /\ rs = 1) \/ (pv = 1 /\ ps = 1 /\ wv = 1 /\ ws = 1)
              /\ programmed(Uniform(heap, bank.batch_size, rv, rs))

\* fuses.backdoor_burn(bit_index, mask)
B_backdoor_burn ==
    /\ blast.op # "off"
    /\ \E mv \in 0..1, ms \in 0..1, bit_index \in (-1)..FuseBits :
          LET burnt(mask) ==
                  B_settle(backdoor_burn(mask.heap, bank, bit_index, mask.ref),
                           "backdoor_burn", Blown(heap, bank, bit_index) /\ ms = 0)
          IN  burnt(Uniform(heap, bank.batch_size, mv, ms))

\* ------------------------------------------------------------------ specifications
\* kernels run on 4-state buffers of BatchSize lanes
InitKernel ==
    /\ ka \in HostBuffers(BatchSize, 1)
    /\ kb \in HostBuffers(BatchSize, 1)
    /\ kout = alloc_logic(BatchSize)
    /\ klast = "init"
    /\ heap = EmptyHeap
    /\ TensorOff
    /\ ChipOff
    /\ FaultOff
    /\ ScanOff
    /\ MonOff
    /\ DebugOff
    /\ TapOff
    /\ FuseOff

\* kernels run on one lane of arbitrary host words
InitWide ==
    /\ ka \in HostBuffers(1, MaxWord)
    /\ kb \in HostBuffers(1, MaxWord)
    /\ kout = alloc_logic(1)
    /\ klast = "init"
    /\ heap = EmptyHeap
    /\ TensorOff
    /\ ChipOff
    /\ FaultOff
    /\ ScanOff
    /\ MonOff
    /\ DebugOff
    /\ TapOff
    /\ FuseOff

NextKernel ==
    \/ (K_cpu_and /\ UNCHANGED <<periph, heap, ta, tb, tt, tlast, ff, chip, clast, fc, flast, fret,
                    scan, slast, mon, mlast>>)
    \/ (K_cpu_or /\ UNCHANGED <<periph, heap, ta, tb, tt, tlast, ff, chip, clast, fc, flast, fret,
                    scan, slast, mon, mlast>>)
    \/ (K_cpu_xor /\ UNCHANGED <<periph, heap, ta, tb, tt, tlast, ff, chip, clast, fc, flast, fret,
                    scan, slast, mon, mlast>>)
    \/ (K_cpu_not /\ UNCHANGED <<periph, heap, ta, tb, tt, tlast, ff, chip, clast, fc, flast, fret,
                    scan, slast, mon, mlast>>)
    \/ (K_cpu_dff /\ UNCHANGED <<periph, heap, ta, tb, tt, tlast, ff, chip, clast, fc, flast, fret,
                    scan, slast, mon, mlast>>)
    \/ (K_cpu_inject /\ UNCHANGED <<periph, heap, ta, tb, tt, tlast, ff, chip, clast, fc, flast, fret,
                    scan, slast, mon, mlast>>)
    \/ (K_cuda_and /\ UNCHANGED <<periph, heap, ta, tb, tt, tlast, ff, chip, clast, fc, flast, fret,
                    scan, slast, mon, mlast>>)
    \/ (K_cuda_or /\ UNCHANGED <<periph, heap, ta, tb, tt, tlast, ff, chip, clast, fc, flast, fret,
                    scan, slast, mon, mlast>>)
    \/ (K_cuda_xor /\ UNCHANGED <<periph, heap, ta, tb, tt, tlast, ff, chip, clast, fc, flast, fret,
                    scan, slast, mon, mlast>>)
    \/ (K_cuda_not /\ UNCHANGED <<periph, heap, ta, tb, tt, tlast, ff, chip, clast, fc, flast, fret,
                    scan, slast, mon, mlast>>)
    \/ (K_cuda_dff /\ UNCHANGED <<periph, heap, ta, tb, tt, tlast, ff, chip, clast, fc, flast, fret,
                    scan, slast, mon, mlast>>)
    \/ (K_cuda_inject /\ UNCHANGED <<periph, heap, ta, tb, tt, tlast, ff, chip, clast, fc, flast, fret,
                    scan, slast, mon, mlast>>)

SpecKernel == InitKernel /\ [][NextKernel]_vars

SpecWide == InitWide /\ [][NextKernel]_vars

\* LogicTensor operators on 4-state tensors of BatchSize lanes
InitTensor ==
    /\ \E av \in [1..BatchSize -> 0..1], as \in [1..BatchSize -> 0..1],
          bv \in [1..BatchSize -> 0..1], bs \in [1..BatchSize -> 0..1] :
          LET made_t(ra, rb, rt) ==
                  heap = rt.heap /\ ta = ra.ref /\ tb = rb.ref /\ tt = rt.ref
              made_b(ra, rb) == made_t(ra, rb, zeros(rb.heap, BatchSize))
              made_a(ra) == made_b(ra, from_host(ra.heap, bv, bs, DEFAULT_BACKEND))
          IN  made_a(from_host(EmptyHeap, av, as, DEFAULT_BACKEND))
    /\ tlast = "init"
    /\ KernelOff
    /\ ChipOff
    /\ FaultOff
    /\ ScanOff
    /\ MonOff
    /\ DebugOff
    /\ TapOff
    /\ FuseOff

NextTensor ==
    \/ (T_and /\ UNCHANGED <<periph, ka, kb, kout, klast, ff, chip, clast, fc, flast, fret,
                    scan, slast, mon, mlast>>)
    \/ (T_or /\ UNCHANGED <<periph, ka, kb, kout, klast, ff, chip, clast, fc, flast, fret,
                    scan, slast, mon, mlast>>)
    \/ (T_xor /\ UNCHANGED <<periph, ka, kb, kout, klast, ff, chip, clast, fc, flast, fret,
                    scan, slast, mon, mlast>>)
    \/ (T_not /\ UNCHANGED <<periph, ka, kb, kout, klast, ff, chip, clast, fc, flast, fret,
                    scan, slast, mon, mlast>>)
    \/ (T_force /\ UNCHANGED <<periph, ka, kb, kout, klast, ff, chip, clast, fc, flast, fret,
                    scan, slast, mon, mlast>>)

SpecTensor == InitTensor /\ [][NextTensor]_vars

\* a Chip built from one of the netlists, ChipBatch lanes
InitChip ==
    /\ \E nl \in Netlists :
          LET built(r) == heap = r.heap /\ chip = r.chip
          IN  built(Chip(EmptyHeap, nl.name, nl.inputs, nl.outputs, nl.wires, nl.instances,
                         ChipBatch))
    /\ ff = NoFF
    /\ clast = "init"
    /\ KernelOff
    /\ TensorOff
    /\ FaultOff
    /\ ScanOff
    /\ MonOff
    /\ DebugOff
    /\ TapOff
    /\ FuseOff

NextChip ==
    \/ (C_set_input /\ UNCHANGED <<periph, ka, kb, kout, klast, ta, tb, tt, tlast, fc, flast, fret,
                    scan, slast, mon, mlast>>)
    \/ (C_step /\ UNCHANGED <<periph, ka, kb, kout, klast, ta, tb, tt, tlast, fc, flast, fret,
                    scan, slast, mon, mlast>>)

Spec == InitChip /\ [][NextChip]_vars

\* a Chip holding one flip-flop without reset, next to a stand-alone DFlipFlop fed the same D
InitSeq ==
    /\ \E nl \in SeqNetlists :
          LET made(r, f) == heap = f.heap /\ chip = r.chip /\ ff = f.ff
              built(r) == made(r, DFlipFlop(r.heap, ChipBatch))
          IN  built(Chip(EmptyHeap, nl.name, nl.inputs, nl.outputs, nl.wires, nl.instances,
                         ChipBatch))
    /\ clast = "init"
    /\ KernelOff
    /\ TensorOff
    /\ FaultOff
    /\ ScanOff
    /\ MonOff
    /\ DebugOff
    /\ TapOff
    /\ FuseOff

NextSeq ==
    \/ (C_set_input /\ UNCHANGED <<periph, ka, kb, kout, klast, ta, tb, tt, tlast, fc, flast, fret,
                    scan, slast, mon, mlast>>)
    \/ (C_step /\ UNCHANGED <<periph, ka, kb, kout, klast, ta, tb, tt, tlast, fc, flast, fret,
                    scan, slast, mon, mlast>>)
    \/ (F_step /\ UNCHANGED <<periph, ka, kb, kout, klast, ta, tb, tt, tlast, fc, flast, fret,
                    scan, slast, mon, mlast>>)
    \/ (F_step_noreset /\ UNCHANGED <<periph, ka, kb, kout, klast, ta, tb, tt, tlast, fc, flast, fret,
                    scan, slast, mon, mlast>>)

SpecSeq == InitSeq /\ [][NextSeq]_vars

\* a Chip built from one of the ill-formed netlists
InitBad ==
    /\ \E nl \in BadNetlists :
          LET built(r) == heap = r.heap /\ chip = r.chip
          IN  built(Chip(EmptyHeap, nl.name, nl.inputs, nl.outputs, nl.wires, nl.instances,
                         ChipBatch))
    /\ ff = NoFF
    /\ clast = "init"
    /\ KernelOff
    /\ TensorOff
    /\ FaultOff
    /\ ScanOff
    /\ MonOff
    /\ DebugOff
    /\ TapOff
    /\ FuseOff

SpecBad == InitBad /\ [][NextChip]_vars

\* a FaultCampaign of FaultBatch lanes
InitFault ==
    /\ fc = FaultCampaign(FaultBatch)
    /\ flast = "init"
    /\ fret = NoRet
    /\ heap = EmptyHeap
    /\ KernelOff
    /\ TensorOff
    /\ ChipOff
    /\ ScanOff
    /\ MonOff
    /\ DebugOff
    /\ TapOff
    /\ FuseOff

NextFault ==
    \/ (FC_add_fault /\ UNCHANGED <<periph, ka, kb, kout, klast, ta, tb, tt, tlast, ff, chip, clast,
                       scan, slast, mon, mlast>>)
    \/ (FC_get_masks /\ UNCHANGED <<periph, ka, kb, kout, klast, ta, tb, tt, tlast, ff, chip, clast,
                       scan, slast, mon, mlast>>)

SpecFault == InitFault /\ [][NextFault]_vars

\* a Chip of FaultBatch lanes and a FaultCampaign over as many lanes
InitCampaign ==
    /\ LET built(r) == heap = r.heap /\ chip = r.chip
       IN  built(Chip(EmptyHeap, NL_fault.name, NL_fault.inputs, NL_fault.outputs,
                      NL_fault.wires, NL_fault.instances, FaultBatch))
    /\ ff = NoFF
    /\ clast = "init"
    /\ fc = FaultCampaign(FaultBatch)
    /\ flast = "init"
    /\ fret = NoRet
    /\ KernelOff
    /\ TensorOff
    /\ ScanOff
    /\ MonOff
    /\ DebugOff
    /\ TapOff
    /\ FuseOff

NextCampaign ==
    \/ (P_add_fault /\ UNCHANGED <<periph, ka, kb, kout, klast, ta, tb, tt, tlast, scan, slast,
                                  mon, mlast>>)
    \/ (P_set_input /\ UNCHANGED <<periph, ka, kb, kout, klast, ta, tb, tt, tlast, scan, slast,
                                  mon, mlast>>)
    \/ (P_force /\ UNCHANGED <<periph, ka, kb, kout, klast, ta, tb, tt, tlast, scan, slast,
                              mon, mlast>>)
    \/ (C_step /\ UNCHANGED <<periph, ka, kb, kout, klast, ta, tb, tt, tlast, fc, flast, fret,
                             scan, slast, mon, mlast>>)
    \/ (P_get_output /\ UNCHANGED <<periph, ka, kb, kout, klast, ta, tb, tt, tlast, scan, slast,
                                   mon, mlast>>)

SpecCampaign == InitCampaign /\ [][NextCampaign]_vars

\* a Chip and the Monitor cmd_sim_vcd builds over its inputs and outputs
InitMon ==
    /\ \E nl \in {NL_seq_norst, NL_gates} :
          LET built(r) ==
                  /\ heap = r.heap
                  /\ chip = r.chip
                  /\ mon = Monitor(r.chip.inputs \o r.chip.outputs,
                                   [x \in Range(r.chip.inputs \o r.chip.outputs) |->
                                       r.chip.signals[x]])
          IN  built(Chip(EmptyHeap, nl.name, nl.inputs, nl.outputs, nl.wires, nl.instances,
                         ChipBatch))
    /\ ff = NoFF
    /\ clast = "init"
    /\ mlast = "init"
    /\ KernelOff
    /\ TensorOff
    /\ FaultOff
    /\ ScanOff
    /\ DebugOff
    /\ TapOff
    /\ FuseOff

NextMon ==
    \/ (M_set_input /\ UNCHANGED <<periph, ka, kb, kout, klast, ta, tb, tt, tlast, fc, flast, fret,
                                  scan, slast>>)
    \/ (M_step /\ UNCHANGED <<periph, ka, kb, kout, klast, ta, tb, tt, tlast, fc, flast, fret,
                             scan, slast>>)
    \/ (M_sample /\ UNCHANGED <<periph, ka, kb, kout, klast, ta, tb, tt, tlast, fc, flast, fret,
                               scan, slast>>)

SpecMon == InitMon /\ [][NextMon]_vars

\* a Chip next to a stand-alone DFlipFlop of the same batch size
InitMix ==
    /\ \E nl \in MixNetlists :
          LET made(r, f) == heap = f.heap /\ chip = r.chip /\ ff = f.ff
              built(r) == made(r, DFlipFlop(r.heap, ChipBatch))
          IN  built(Chip(EmptyHeap, nl.name, nl.inputs, nl.outputs, nl.wires, nl.instances,
                         ChipBatch))
    /\ clast = "init"
    /\ KernelOff
    /\ TensorOff
    /\ FaultOff
    /\ ScanOff
    /\ MonOff
    /\ DebugOff
    /\ TapOff
    /\ FuseOff

NextMix ==
    \/ (X_set_input /\ UNCHANGED <<periph, ka, kb, kout, klast, ta, tb, tt, tlast, fc, flast, fret,
                                  scan, slast, mon, mlast>>)
    \/ (C_step /\ UNCHANGED <<periph, ka, kb, kout, klast, ta, tb, tt, tlast, fc, flast, fret,
                             scan, slast, mon, mlast>>)
    \/ (X_ff_step /\ UNCHANGED <<periph, ka, kb, kout, klast, ta, tb, tt, tlast, fc, flast, fret,
                                scan, slast, mon, mlast>>)

SpecMix == InitMix /\ [][NextMix]_vars

\* a ScanChain over ScanLen flip-flops of ChipBatch lanes
InitScan ==
    /\ LET bound(r) == heap = r.heap /\ scan = ScanChain(r.registers)
       IN  bound(Registers(EmptyHeap, ScanLen, ChipBatch, <<>>))
    /\ slast = [op |-> "init"]
    /\ KernelOff
    /\ TensorOff
    /\ ChipOff
    /\ FaultOff
    /\ MonOff
    /\ DebugOff
    /\ TapOff
    /\ FuseOff

NextScan ==
    \/ (S_scan_load /\ UNCHANGED <<periph, ka, kb, kout, klast, ta, tb, tt, tlast, ff, chip, clast,
                                  fc, flast, fret, mon, mlast>>)
    \/ (S_shift /\ UNCHANGED <<periph, ka, kb, kout, klast, ta, tb, tt, tlast, ff, chip, clast,
                              fc, flast, fret, mon, mlast>>)

SpecScan == InitScan /\ [][NextScan]_vars

\* ------------------------------------------------------------------ gate bench
\* A driver compiles a netlist of combinational gates, drives its inputs with
\* one 4-state value on every lane, and steps it.

\* y0 = ~w3, y1 = ~w2 declared before the w2 = ~a, w3 = a that feed them
NL_level ==
    Netlist("level", <<"a">>, <<"y0", "y1">>, <<"w2", "w3">>,
            << Gate("not", "g0", <<"y0", "w3">>),
               Gate("not", "g1", <<"y1", "w2">>),
               Gate("not", "g2", <<"w2", "a">>),
               Gate("buf", "g3", <<"w3", "a">>) >>)

\* every gate kind over three inputs, the ports in differing orders
NL_wide ==
    Netlist("wide", <<"a", "b", "c">>,
            <<"y_and", "y_or", "y_xor", "y_nand", "y_nor", "y_xnor", "y_buf">>, <<>>,
            << Gate("and", "g1", <<"y_and", "a", "b", "c">>),
               Gate("or", "g2", <<"y_or", "b", "c", "a">>),
               Gate("xor", "g3", <<"y_xor", "c", "a", "b">>),
               Gate("nand", "g4", <<"y_nand", "c", "b", "a">>),
               Gate("nor", "g5", <<"y_nor", "a", "c", "b">>),
               Gate("xnor", "g6", <<"y_xnor", "b", "a", "c">>),
               Gate("buf", "g7", <<"y_buf", "a">>) >>)

GateNetlists == {NL_level, NL_wide}

\* chip.set_input(name, LogicTensor.from_host([v] * n, [s] * n))
G_set_input ==
    /\ clast # "off"
    /\ \E name \in Range(chip.inputs), v \in 0..1, s \in 0..1 :
          /\ ~set_input_raises(chip, name)
          /\ C_called(from_host(heap, [i \in 1..chip.batch_size |-> v],
                                [i \in 1..chip.batch_size |-> s], DEFAULT_BACKEND),
                      name)
    /\ clast' = "set_input"
    /\ UNCHANGED ff

InitGates ==
    /\ \E nl \in GateNetlists :
          LET built(r) == heap = r.heap /\ chip = r.chip
          IN  built(Chip(EmptyHeap, nl.name, nl.inputs, nl.outputs, nl.wires, nl.instances,
                         ChipBatch))
    /\ ff = NoFF
    /\ clast = "init"
    /\ KernelOff
    /\ TensorOff
    /\ FaultOff
    /\ ScanOff
    /\ MonOff
    /\ DebugOff
    /\ TapOff
    /\ FuseOff

NextGates ==
    \/ (G_set_input /\ UNCHANGED <<periph, ka, kb, kout, klast, ta, tb, tt, tlast, fc, flast, fret,
                                  scan, slast, mon, mlast>>)
    \/ (C_step /\ UNCHANGED <<periph, ka, kb, kout, klast, ta, tb, tt, tlast, fc, flast, fret,
                             scan, slast, mon, mlast>>)

SpecGates == InitGates /\ [][NextGates]_vars

\* a DFlipFlop registered in a DebugPort and bound in a ScanChain of one register
InitDebug ==
    /\ LET bound(r) ==
               /\ heap = r.heap
               /\ ff = r.ff
               /\ scan = ScanChain(<<r.ff>>)
               /\ dbg = add_register(DebugPort, "SECURE_EN", 256, r.ff.q)
       IN  bound(DFlipFlop(EmptyHeap, ChipBatch))
    /\ slast = [op |-> "init"]
    /\ chip = NoChip
    /\ clast = "off"
    /\ KernelOff
    /\ TensorOff
    /\ FaultOff
    /\ MonOff
    /\ TapOff
    /\ FuseOff

NextDebug ==
    \/ (D_step /\ UNCHANGED <<ka, kb, kout, klast, ta, tb, tt, tlast, chip, clast, fc, flast,
                             fret, mon, mlast, tap, jlast, bank, blast>>)
    \/ (D_scan_load /\ UNCHANGED <<ka, kb, kout, klast, ta, tb, tt, tlast, chip, clast, fc,
                                  flast, fret, mon, mlast, tap, jlast, bank, blast>>)
    \/ (D_write /\ UNCHANGED <<ka, kb, kout, klast, ta, tb, tt, tlast, chip, clast, fc, flast,
                              fret, mon, mlast, tap, jlast, bank, blast>>)
    \/ (D_read /\ UNCHANGED <<ka, kb, kout, klast, ta, tb, tt, tlast, chip, clast, fc, flast,
                             fret, mon, mlast, tap, jlast, bank, blast>>)

SpecDebug == InitDebug /\ [][NextDebug]_vars

\* a TAPController in any of its 16 states on each lane
InitTap ==
    /\ \E states \in [1..ChipBatch -> 0..15] :
          LET placed(r, s) ==
                  /\ heap = Collect(s.heap, Renaming(EmptyHeap,
                                                     TapRefs([r.tap EXCEPT !.state = s.ref])))
                  /\ tap = TapRebound([r.tap EXCEPT !.state = s.ref],
                                      Renaming(EmptyHeap, TapRefs([r.tap EXCEPT !.state = s.ref])))
              built(r) ==
                  placed(r, from_host(r.heap, states, [i \in 1..ChipBatch |-> 1],
                                      DEFAULT_BACKEND))
          IN  built(TAPController(EmptyHeap, ChipBatch))
    /\ jlast = [op |-> "init", raised |-> FALSE, ones |-> 0]
    /\ KernelOff
    /\ TensorOff
    /\ ChipOff
    /\ FaultOff
    /\ ScanOff
    /\ MonOff
    /\ DebugOff
    /\ FuseOff

NextTap ==
    J_step /\ UNCHANGED <<ka, kb, kout, klast, ta, tb, tt, tlast, ff, chip, clast, fc, flast,
                         fret, scan, slast, mon, mlast, dbg, bank, blast>>

SpecTap == InitTap /\ [][NextTap]_vars

\* a FuseBank with no fuse blown
InitFuse ==
    /\ LET built(r) == heap = r.heap /\ bank = r.bank
       IN  built(FuseBank(EmptyHeap, FuseBits, ChipBatch))
    /\ blast = [op |-> "init", raised |-> FALSE, hit |-> FALSE]
    /\ KernelOff
    /\ TensorOff
    /\ ChipOff
    /\ FaultOff
    /\ ScanOff
    /\ MonOff
    /\ DebugOff
    /\ TapOff

NextFuse ==
    \/ (B_step /\ UNCHANGED <<ka, kb, kout, klast, ta, tb, tt, tlast, ff, chip, clast, fc,
                             flast, fret, scan, slast, mon, mlast, dbg, tap, jlast>>)
    \/ (B_backdoor_burn /\ UNCHANGED <<ka, kb, kout, klast, ta, tb, tt, tlast, ff, chip, clast,
                                      fc, flast, fret, scan, slast, mon, mlast, dbg, tap,
                                      jlast>>)

SpecFuse == InitFuse /\ [][NextFuse]_vars

\* ------------------------------------------------------------------ properties
\* the lanes of a pair of buffers, as a sequence of (v, s) records
Lanes(buf) == [i \in DOMAIN buf.v |-> LaneOf(buf, i)]

\* the lanes of the tensor a Chip's signal name is bound to
SigLanes(c, h, x) == Lanes(_buffers(h[c.signals[x]]))

\* the truth tables of the 4-state algebra, on one lane
AndTable(a, b) ==
    IF a = Lane0 \/ b = Lane0 THEN Lane0 ELSE IF a = Lane1 /\ b = Lane1 THEN Lane1 ELSE LaneX

OrTable(a, b) ==
    IF a = Lane1 \/ b = Lane1 THEN Lane1 ELSE IF a = Lane0 /\ b = Lane0 THEN Lane0 ELSE LaneX

XorTable(a, b) ==
    IF a.s = 1 /\ b.s = 1 THEN [v |-> (a.v + b.v) % 2, s |-> 1] ELSE LaneX

NotTable(a) == IF a = Lane0 THEN Lane1 ELSE IF a = Lane1 THEN Lane0 ELSE LaneX

DffTable(d, rst) == IF rst.s = 0 THEN LaneX ELSE IF rst.v = 1 THEN Lane0 ELSE d

AndLanes(a, b) == [i \in DOMAIN a |-> AndTable(a[i], b[i])]
OrLanes(a, b) == [i \in DOMAIN a |-> OrTable(a[i], b[i])]
NotLanes(a) == [i \in DOMAIN a |-> NotTable(a[i])]
DffLanes(d, rst) == [i \in DOMAIN d |-> DffTable(d[i], rst[i])]

\* the names written by the combinational gates of a Chip
CombOutputs(c) == {c.sorted_gates[i].ports[1] : i \in 1..Len(c.sorted_gates)}

\* the reset lanes a dff samples: those of its reset port, strong 0 when it has none
ResetLanes(c, h, dff) ==
    IF Len(dff.ports) > 3 THEN SigLanes(c, h, dff.ports[4])
    ELSE [i \in 1..c.batch_size |-> Lane0]

\* a dff whose D and reset are not written by a gate: what it samples is what
\* the signals held when step() was called
SamplesState(c, dff) ==
    /\ dff.ports[2] \notin CombOutputs(c)
    /\ Len(dff.ports) > 3 => dff.ports[4] \notin CombOutputs(c)

\* C1: edge atomicity. After a step(), the Q of every flip-flop is the flip-flop
\* function of the D and reset values held before the step, whatever the order
\* the flip-flops are declared in and whichever other Q the D is: on the swap
\* netlists q1 takes the old q2 and q2 the old q1, so (0,1) becomes (1,0) and
\* (1,0) becomes (0,1).
C1_EdgeAtomicity ==
    [][clast' = "step" =>
          \A k \in 1..Len(chip.dffs) :
             SamplesState(chip, chip.dffs[k]) =>
                SigLanes(chip', heap', chip.dffs[k].ports[1])
                   = DffLanes(SigLanes(chip, heap, chip.dffs[k].ports[2]),
                              ResetLanes(chip, heap, chip.dffs[k]))]_vars

\* the swap chip holding (q1,q2) = (1,0) after a step
C1_Witness ==
    /\ clast = "step"
    /\ chip.name = "swap"
    /\ chip.instances[1].name = "f2"
    /\ \A i \in 1..chip.batch_size :
          SigLanes(chip, heap, "q1")[i] = Lane1 /\ SigLanes(chip, heap, "q2")[i] = Lane0

\* C2: phase ordering. After a step() every combinational output is the gate
\* function of the inputs and of the Q values held before the step, and a
\* flip-flop fed by a gate captures that same freshly computed value.
C2_PhaseOrdering ==
    [][clast' = "step" =>
          /\ chip.name = "toggle" =>
                /\ SigLanes(chip', heap', "n") = NotLanes(SigLanes(chip, heap, "q"))
                /\ SigLanes(chip', heap', "q")
                      = DffLanes(NotLanes(SigLanes(chip, heap, "q")), SigLanes(chip, heap, "rst"))
          /\ chip.name = "pipe" =>
                /\ SigLanes(chip', heap', "n") = NotLanes(SigLanes(chip, heap, "q"))
                /\ SigLanes(chip', heap', "y") = SigLanes(chip, heap, "q")
                /\ SigLanes(chip', heap', "q") = NotLanes(SigLanes(chip, heap, "q"))
          /\ chip.name = "test_comb" =>
                /\ SigLanes(chip', heap', "a_inv") = NotLanes(SigLanes(chip, heap, "a"))
                /\ SigLanes(chip', heap', "n1")
                      = AndLanes(SigLanes(chip, heap, "a"), SigLanes(chip, heap, "b"))
                /\ SigLanes(chip', heap', "y")
                      = OrLanes(AndLanes(SigLanes(chip, heap, "a"), SigLanes(chip, heap, "b")),
                                NotLanes(SigLanes(chip, heap, "a")))]_vars

\* the toggle chip after a step from q = 0 with reset inactive: the flip-flop
\* captured ~q = 1 and the inverter's output still shows the value computed from the old q
C2_Witness ==
    /\ clast = "step"
    /\ chip.name = "toggle"
    /\ \A i \in 1..chip.batch_size :
          /\ SigLanes(chip, heap, "rst")[i] = Lane0
          /\ SigLanes(chip, heap, "q")[i] = Lane1
          /\ SigLanes(chip, heap, "n")[i] = Lane1

\* C3: AND truth table. After the AND kernel of either backend, every lane of
\* the output is strong 0 if a or b is strong 0, strong 1 if both are strong 1,
\* and X otherwise.
C3_AndTruthTable ==
    klast \in {"cpu_and", "cuda_and"} => Lanes(kout) = AndLanes(Lanes(ka), Lanes(kb))

\* the controlling 0 beside a Z, and 1 & 1
C3_Witness ==
    /\ klast = "cpu_and"
    /\ LaneOf(ka, 1) = LaneZ /\ LaneOf(kb, 1) = Lane0 /\ LaneOf(kout, 1) = Lane0
    /\ LaneOf(ka, 2) = Lane1 /\ LaneOf(kb, 2) = Lane1 /\ LaneOf(kout, 2) = Lane1

\* C4: OR truth table. After the OR kernel of either backend, every lane of the
\* output is strong 1 if a or b is strong 1, strong 0 if both are strong 0, and
\* X otherwise.
C4_OrTruthTable ==
    klast \in {"cpu_or", "cuda_or"} => Lanes(kout) = OrLanes(Lanes(ka), Lanes(kb))

\* the controlling 1 beside an X, and 0 | 0
C4_Witness ==
    /\ klast = "cpu_or"
    /\ LaneOf(ka, 1) = Lane1 /\ LaneOf(kb, 1) = LaneX /\ LaneOf(kout, 1) = Lane1
    /\ LaneOf(ka, 2) = Lane0 /\ LaneOf(kb, 2) = Lane0 /\ LaneOf(kout, 2) = Lane0

\* C5: XOR truth table. After the XOR kernel of either backend, every lane of
\* the output is (a.V xor b.V, 1) if both inputs are defined and X otherwise:
\* no input value decides the output alone.
C5_XorTruthTable ==
    klast \in {"cpu_xor", "cuda_xor"} =>
       \A i \in DOMAIN kout.v : LaneOf(kout, i) = XorTable(LaneOf(ka, i), LaneOf(kb, i))

\* 1 ^ 0 = 1, and 0 ^ Z = X
C5_Witness ==
    /\ klast = "cpu_xor"
    /\ LaneOf(ka, 1) = Lane1 /\ LaneOf(kb, 1) = Lane0 /\ LaneOf(kout, 1) = Lane1
    /\ LaneOf(ka, 2) = Lane0 /\ LaneOf(kb, 2) = LaneZ /\ LaneOf(kout, 2) = LaneX

\* C6: NOT truth table. t = ~a leaves in t, lane by lane, strong 1 for a strong
\* 0, strong 0 for a strong 1 and X for X or Z; a's object is what it was, and t
\* is an object that is neither a nor b.
C6_NotTruthTable ==
    [][tlast' = "not" =>
          /\ Lanes(_buffers(heap'[tt'])) = NotLanes(Lanes(_buffers(heap[ta])))
          /\ ta' = ta /\ heap'[ta'] = heap[ta]
          /\ tt' \notin {ta', tb'}]_vars

\* ~<<0, Z, ...>> = <<1, X, ...>> held by another object than a
C6_Witness ==
    /\ tlast = "not"
    /\ tt # ta
    /\ LaneOf(_buffers(heap[ta]), 1) = Lane0 /\ LaneOf(_buffers(heap[tt]), 1) = Lane1
    /\ LaneOf(_buffers(heap[ta]), 2) = LaneZ /\ LaneOf(_buffers(heap[tt]), 2) = LaneX

\* C7: flip-flop update. After the dff kernel of either backend run on D = a and
\* reset = b over whatever Q the output buffer held, every lane of Q is X if the
\* reset is X or Z, strong 0 if the reset is strong 1, and D's own (V,S) if the
\* reset is strong 0: a function of D and reset alone.
C7_DffTruthTable ==
    [][klast' \in {"cpu_dff", "cuda_dff"} =>
          Lanes(kout') = DffLanes(Lanes(ka), Lanes(kb))]_vars

\* D = 1 under reset X gives X, D = Z under reset 0 gives Z
C7_Witness ==
    /\ klast = "cpu_dff"
    /\ LaneOf(ka, 1) = Lane1 /\ LaneOf(kb, 1) = LaneX /\ LaneOf(kout, 1) = LaneX
    /\ LaneOf(ka, 2) = LaneZ /\ LaneOf(kb, 2) = Lane0 /\ LaneOf(kout, 2) = LaneZ

\* the buffers of a reset driven strong 0 on n lanes
StrongZero(n) == LogicBuffers([i \in 1..n |-> V_0], [i \in 1..n |-> S_0])

\* C8: no reset is reset strong 0. DFlipFlop.step(d) leaves in q what the
\* flip-flop kernel gives for d under an all-strong-0 reset, which is d's own
\* (V,S) on every lane, as does step(d, zeros); and a Chip flip-flop declared
\* without a reset port holds after step() the (V,S) its D held.
C8_NoResetIsResetZero ==
    [][/\ clast' \in {"ff_step_noreset", "ff_step"} =>
             /\ Lanes(_buffers(heap'[ff'.q])) = SigLanes(chip, heap, "d")
             /\ _buffers(heap'[ff'.q])
                   = dff_update(_buffers(heap[ff.q]), _buffers(heap[chip.signals["d"]]),
                                StrongZero(ff.batch_size), ff.batch_size)
       /\ clast' = "step" =>
             \A k \in 1..Len(chip.dffs) :
                Len(chip.dffs[k].ports) <= 3 =>
                   SigLanes(chip', heap', chip.dffs[k].ports[1])
                      = SigLanes(chip, heap, chip.dffs[k].ports[2])]_vars

\* the stand-alone flip-flop holding Z after step(d) with d = Z
C8_Witness ==
    /\ clast = "ff_step_noreset"
    /\ \A i \in 1..ff.batch_size :
          LaneOf(_buffers(heap[ff.q]), i) = LaneZ /\ SigLanes(chip, heap, "d")[i] = LaneZ

KernelOps ==
    {"cpu_and", "cpu_or", "cpu_xor", "cpu_not", "cpu_dff", "cpu_inject",
     "cuda_and", "cuda_or", "cuda_xor", "cuda_not", "cuda_dff", "cuda_inject"}

\* C9: four-state closure. After any kernel, run on buffers from_host filled
\* from host arrays, every lane of the output is one of (0,1), (1,1), (0,0), (1,0).
C9_FourStateClosure ==
    klast \in KernelOps => \A i \in DOMAIN kout.v : LaneOf(kout, i) \in FourStates

\* the kernel named op run on target/output t and operands a and b
KernelRun(op, t, a, b) ==
    CASE op = "cpu_and" -> logic_and(t, a, b, Len(t.v))
      [] op = "cpu_or" -> logic_or(t, a, b, Len(t.v))
      [] op = "cpu_xor" -> logic_xor(t, a, b, Len(t.v))
      [] op = "cpu_not" -> logic_not(t, a, Len(t.v))
      [] op = "cpu_dff" -> dff_update(t, a, b, Len(t.v))
      [] op = "cpu_inject" -> inject_fault(t, a, b, Len(t.v))
      [] op = "cuda_and" -> k_and_4state(a.v, a.s, b.v, b.s, t.v, t.s, Len(t.v))
      [] op = "cuda_or" -> k_or_4state(a.v, a.s, b.v, b.s, t.v, t.s, Len(t.v))
      [] op = "cuda_xor" -> k_xor_4state(a.v, a.s, b.v, b.s, t.v, t.s, Len(t.v))
      [] op = "cuda_not" -> k_not_4state(a.v, a.s, t.v, t.s, Len(t.v))
      [] op = "cuda_dff" -> k_dff_update_4state(a.v, a.s, t.v, t.s, b.v, b.s, Len(t.v))
      [] OTHER -> k_inject_fault(t.v, t.s, a.v, b.v, Len(t.v))

\* the permutations of the lanes of the kernel bench that move a lane
LanePerms ==
    {p \in [1..BatchSize -> 1..BatchSize] :
        /\ \A i, j \in 1..BatchSize : p[i] = p[j] => i = j
        /\ \E i \in 1..BatchSize : p[i] # i}

\* the buffers with lane i holding what lane p[i] held
Permuted(buf, p) ==
    LogicBuffers([i \in DOMAIN buf.v |-> buf.v[p[i]]], [i \in DOMAIN buf.s |-> buf.s[p[i]]])

\* the one-lane buffers holding lane i
Slice(buf, i) == LogicBuffers(<<buf.v[i]>>, <<buf.s[i]>>)

\* C10: lane independence. For every kernel run, lane i of what it leaves is
\* what the same kernel leaves when run on the lanes i of its inputs alone, and
\* running it on the inputs under any one permutation of the lanes leaves the
\* output under that permutation (the identity needs no check).
C10_LaneIndependence ==
    [][klast' \in KernelOps =>
          /\ \A i \in DOMAIN kout.v :
                LaneOf(kout', i)
                   = LaneOf(KernelRun(klast', Slice(kout, i), Slice(ka, i), Slice(kb, i)), 1)
          /\ \A p \in LanePerms :
                Permuted(kout', p)
                   = KernelRun(klast', Permuted(kout, p), Permuted(ka, p), Permuted(kb, p))]_vars

\* a fault injected on lane 1 only: lane 1 is forced to strong 1, lane 2 keeps its X
C10_Witness ==
    /\ klast = "cpu_inject"
    /\ ka.v[1] = 1 /\ ka.v[2] = 0
    /\ kb.v[1] = 1 /\ kb.v[2] = 1
    /\ LaneOf(kout, 1) = Lane1 /\ LaneOf(kout, 2) = LaneX

\* the heap with lane i of the tensor ref replaced by X
XLane(h, ref, i) ==
    Put(h, ref, Written(h[ref], LogicBuffers([h[ref].v_data EXCEPT ![i] = V_X],
                                             [h[ref].s_data EXCEPT ![i] = S_X])))

\* a defined lane stays what it was or becomes X
Weakened(before, after) == before \in {Lane0, Lane1} => after \in {before, LaneX}

\* lane i of every signal after the step r, against the same lane after the step taken
WeakenedBy(r, i) ==
    \A y \in DOMAIN chip.signals :
       Weakened(SigLanes(chip', heap', y)[i], LaneOf(_buffers(r.heap[r.signals[y]]), i))

\* C11: X monotonicity. Whenever step() runs, had one defined lane of one driven
\* signal (a primary input or a flip-flop's Q) been X instead, every signal would
\* hold after the step, on that lane, either the defined value it holds now or X.
\* The netlists run AND, OR, XOR, NOT and the flip-flop update over all lane
\* values, alone and composed.
C11_XMonotonicity ==
    [][clast' = "step" =>
          \A x \in DriveNames(chip), i \in 1..chip.batch_size :
             LaneOf(_buffers(heap[chip.signals[x]]), i) \in {Lane0, Lane1} =>
                WeakenedBy(Chip_step(chip, XLane(heap, chip.signals[x], i)), i)]_vars

\* a controlling 0 beside an X: the AND stays 0, the OR fed by ~X is X
C11_Witness ==
    /\ clast = "step"
    /\ chip.name = "test_comb"
    /\ \A i \in 1..chip.batch_size :
          /\ SigLanes(chip, heap, "a")[i] = LaneX
          /\ SigLanes(chip, heap, "b")[i] = Lane0
          /\ SigLanes(chip, heap, "n1")[i] = Lane0
          /\ SigLanes(chip, heap, "y")[i] = LaneX

\* the combinational gates of a Chip, as declared
DeclaredGates(c) == SelectSeq(c.instances, LAMBDA g : g.type # "dff")

\* C12: levelization validity. In every Chip built from a netlist without a
\* combinational cycle, sorted_gates holds each combinational gate exactly once,
\* and a gate that reads the output of another combinational gate stands after it.
C12_LevelizationValid ==
    chip # NoChip =>
       /\ Len(chip.sorted_gates) = Len(DeclaredGates(chip))
       /\ \A k \in 1..Len(DeclaredGates(chip)) :
             Cardinality({j \in 1..Len(chip.sorted_gates) :
                             chip.sorted_gates[j] = DeclaredGates(chip)[k]}) = 1
       /\ \A i, j \in 1..Len(chip.sorted_gates) :
             chip.sorted_gates[j].ports[1] \in Range(Tail(chip.sorted_gates[i].ports)) => j < i

\* test_simple_combinational stepped: g2 is declared second and evaluated last
C12_Witness ==
    /\ clast = "step"
    /\ chip.name = "test_comb"
    /\ chip.instances[2].name = "g2"
    /\ chip.sorted_gates[3].name = "g2"

\* the Chip built from the same declaration with its instances in the order o,
\* holding the same signals
Reordered(c, o) ==
    [c EXCEPT !.instances = o, !.sorted_gates = _topological_sort(o), !.dffs = SelectSeq(o, IsDff)]

\* every signal after the step r holds the lanes it holds after the step taken
SameValues(r) ==
    \A y \in DOMAIN chip.signals :
       Lanes(_buffers(r.heap[r.signals[y]])) = SigLanes(chip', heap', y)

\* C13: source-order independence. Whenever step() runs, the Chip compiled from
\* any permutation of the instance list, stepped from the same signal values,
\* leaves every signal with the same lanes.
C13_SourceOrderIndependence ==
    [][clast' = "step" =>
          \A o \in Perms(chip.instances) : SameValues(Chip_step(Reordered(chip, o), heap))]_vars

\* test_simple_combinational, g2 declared before the g3 that drives its input:
\* a = 0 gives a_inv = 1 and y = 1 in the same step
C13_Witness ==
    /\ clast = "step"
    /\ chip.name = "test_comb"
    /\ chip.instances[2].name = "g2" /\ chip.instances[3].name = "g3"
    /\ \A i \in 1..chip.batch_size :
          /\ SigLanes(chip, heap, "a")[i] = Lane0
          /\ SigLanes(chip, heap, "a_inv")[i] = Lane1
          /\ SigLanes(chip, heap, "y")[i] = Lane1

\* gate g's output is among gate h's inputs
Feeds(g, h) == g.ports[1] \in Range(Tail(h.ports))

\* the gates reached from the gates in set along at most n more edges
RECURSIVE Downstream(_, _, _)
Downstream(gs, set, n) ==
    IF n = 0 THEN set
    ELSE Downstream(gs, set \cup {j \in 1..Len(gs) : \E i \in set : Feeds(gs[i], gs[j])}, n - 1)

\* some combinational gate of the Chip feeds itself, directly or through others
HasCombCycle(c) ==
    \E k \in 1..Len(DeclaredGates(c)) :
       k \in Downstream(DeclaredGates(c),
                        {j \in 1..Len(DeclaredGates(c)) :
                            Feeds(DeclaredGates(c)[k], DeclaredGates(c)[j])},
                        Len(DeclaredGates(c)))

\* C14: a combinational cycle is rejected at construction, so no Chip whose
\* combinational gates form a cycle is ever there to be stepped.
C14_CycleRejected == HasCombCycle(chip) => clast # "step"

\* C15: two gates writing one signal are rejected at construction, so in every
\* constructed Chip each signal is the output of at most one instance.
C15_SingleDriver ==
    clast # "off" =>
       \A k, j \in 1..Len(chip.instances) :
          chip.instances[k].ports[1] = chip.instances[j].ports[1] => k = j

XorLanes(a, b) == [i \in DOMAIN a |-> XorTable(a[i], b[i])]

\* what a gate of the given type gives for the lanes of its inputs
GateLanes(type, ins) ==
    CASE type = "not" -> NotLanes(ins[1])
      [] type = "buf" -> ins[1]
      [] type = "and" -> AndLanes(ins[1], ins[2])
      [] type = "or" -> OrLanes(ins[1], ins[2])
      [] OTHER -> XorLanes(ins[1], ins[2])

\* the names written by the flip-flops of a Chip
DffOutputs(c) == {c.dffs[i].ports[1] : i \in 1..Len(c.dffs)}

\* what a gate read on the step taken: a flip-flop's Q as it stood before the
\* edge, any other signal as it stands after the step
ReadLanes(g) ==
    [k \in 1..(Len(g.ports) - 1) |->
        IF g.ports[k + 1] \in DffOutputs(chip) THEN SigLanes(chip, heap, g.ports[k + 1])
        ELSE SigLanes(chip', heap', g.ports[k + 1])]

\* C16: sequential feedback is not a combinational cycle. On a Chip with
\* flip-flops, loops through a flip-flop included, sorted_gates holds all the
\* combinational gates, and after every step() each combinational gate's output
\* is its function of what it read: flip-flop outputs as roots, at their
\* pre-edge value.
C16_SequentialFeedbackCompiles ==
    [][clast' = "step" /\ chip.dffs # <<>> =>
          /\ Len(chip.sorted_gates) = Len(DeclaredGates(chip))
          /\ \A k \in 1..Len(DeclaredGates(chip)) :
                SigLanes(chip', heap', DeclaredGates(chip)[k].ports[1])
                   = GateLanes(DeclaredGates(chip)[k].type, ReadLanes(DeclaredGates(chip)[k]))]_vars

\* the reset-less toggle after a step from q = 0: both gates in the plan, the
\* inverter shows ~0, the buffer the old q, the flip-flop the captured 1
C16_Witness ==
    /\ clast = "step"
    /\ chip.name = "pipe"
    /\ Len(chip.sorted_gates) = 2
    /\ \A i \in 1..chip.batch_size :
          /\ SigLanes(chip, heap, "n")[i] = Lane1
          /\ SigLanes(chip, heap, "y")[i] = Lane0
          /\ SigLanes(chip, heap, "q")[i] = Lane1

\* step() on the Chip with every signal that is not a primary input bound to
\* the tensor r.ref instead of what earlier steps left
StepForgetting(r) ==
    Chip_step([chip EXCEPT !.signals = [x \in DOMAIN chip.signals |->
                                           IF x \in Range(chip.inputs) THEN chip.signals[x]
                                           ELSE r.ref]],
              r.heap)

\* C17: combinational purity. On a Chip without flip-flops, a step() that
\* follows a step() with no set_input in between leaves every signal's lanes as
\* they were, and every step() leaves the lanes it would leave had all the
\* signals other than the primary inputs held X before it.
C17_CombinationalPurity ==
    [][clast' = "step" /\ chip.dffs = <<>> =>
          /\ clast = "step" =>
                \A y \in DOMAIN chip.signals : SigLanes(chip', heap', y) = SigLanes(chip, heap, y)
          /\ SameValues(StepForgetting(unknown(heap, chip.batch_size)))]_vars

\* the two-gate netlist stepped with a = b = 1: y = 1 ^ 1 = 0, z = 1 | 1 = 1
C17_Witness ==
    /\ clast = "step"
    /\ chip.name = "gates"
    /\ chip.dffs = <<>>
    /\ \A i \in 1..chip.batch_size :
          /\ SigLanes(chip, heap, "a")[i] = Lane1 /\ SigLanes(chip, heap, "b")[i] = Lane1
          /\ SigLanes(chip, heap, "y")[i] = Lane0 /\ SigLanes(chip, heap, "z")[i] = Lane1

\* C18: fault lane allocation. The k-th add_fault that succeeds returns lane k
\* and records it, so the recorded lanes are 1, 2, 3, ... without repetition and
\* never 0; a call succeeds exactly while fewer than batch_size - 1 faults are
\* recorded, and a call that fails leaves the campaign as it was.
C18_FaultLaneAllocation ==
    [][/\ flast' = "add_fault" =>
             /\ Len(fc.fault_list) < fc.batch_size - 1
             /\ fret' = [raised |-> FALSE, idx |-> Len(fc.fault_list) + 1]
             /\ Len(fc'.fault_list) = Len(fc.fault_list) + 1
             /\ \A k \in 1..Len(fc'.fault_list) : fc'.fault_list[k].index = k
       /\ flast' = "add_fault_raised" =>
             /\ Len(fc.fault_list) = fc.batch_size - 1
             /\ fc' = fc]_vars

\* the campaign full: lanes 1..N-1 taken in order and the next call refused
C18_Witness ==
    /\ flast = "add_fault_raised"
    /\ Len(fc.fault_list) = fc.batch_size - 1
    /\ fc.next_free_index = fc.batch_size
    /\ \A k \in 1..Len(fc.fault_list) : fc.fault_list[k].index = k

\* the faults of the campaign registered on signal s with lane i
FaultsOn(c, s, i) ==
    {k \in 1..Len(c.fault_list) : c.fault_list[k].name = s /\ c.fault_list[k].index = i}

\* m holds the masks of signal s: position i + 1 of the arrays is lane i
MasksOf(c, s, m) ==
    /\ DOMAIN m.en.v = 1..c.batch_size /\ DOMAIN m.val.v = 1..c.batch_size
    /\ \A i \in 0..(c.batch_size - 1) :
          /\ m.en.s[i + 1] = 1 /\ m.val.s[i + 1] = 1
          /\ m.en.v[i + 1] = (IF FaultsOn(c, s, i) = {} THEN 0 ELSE 1)
          /\ \A k \in FaultsOn(c, s, i) : m.val.v[i + 1] = c.fault_list[k].type

\* C19: mask materialization. Every get_masks call returns a pair (enable,
\* value) of N-lane tensors that are the masks of the signal asked for: enable
\* is 1 exactly on the lanes of that signal's faults, value holds their stuck
\* values, S is 1 throughout; and the call leaves the campaign as it was.
C19_MaskMaterialization ==
    [][flast' \in {"get_masks", "get_masks_raised"} =>
          /\ ~fret'.raised
          /\ \E s \in FaultNames : MasksOf(fc, s, fret')
          /\ fc' = fc]_vars

\* C20: invalid stuck value. add_fault with a stuck value outside {0,1} fails
\* and records nothing, so every recorded fault holds 0 or 1.
C20_StuckValueValidated ==
    \A k \in 1..Len(fc.fault_list) : fc.fault_list[k].type \in {0, 1}

\* C21: fault overlay. After the inject kernel of either backend run with enable
\* a and value b over the target the output buffer is, every lane whose
\* enable V is 1 holds (value V, S = 1) whatever it held, X or Z included, every
\* lane whose enable V is 0 holds what it held, and the enable and value
\* buffers are what they were: stuck-at-v over strong v changes nothing,
\* stuck-at-v over strong not-v flips the lane.
C21_FaultOverlay ==
    [][klast' \in {"cpu_inject", "cuda_inject"} =>
          /\ \A i \in DOMAIN kout.v :
                /\ ka.v[i] = 1 => LaneOf(kout', i) = [v |-> kb.v[i], s |-> 1]
                /\ ka.v[i] = 0 => LaneOf(kout', i) = LaneOf(kout, i)
          /\ ka' = ka /\ kb' = kb]_vars

\* stuck-at-0 on lane 1 alone: lane 1 is strong 0, lane 2 keeps the X it held
C21_Witness ==
    /\ klast = "cuda_inject"
    /\ ka.v[1] = 1 /\ kb.v[1] = 0 /\ LaneOf(kout, 1) = Lane0
    /\ ka.v[2] = 0 /\ LaneOf(kout, 2) = LaneX

\* the lanes register j of a chain holds in the heap h
ChainLanes(h, self, j) == Lanes(_buffers(h[self.chain[j].q]))

\* a scan_load call whose matrices are N x K
WellShaped(call, self) ==
    /\ Len(call.pattern_val) = self.chain[1].batch_size
    /\ Len(call.pattern_val[1]) = self.length
    /\ call.pattern_x # NoPattern =>
          /\ Len(call.pattern_x) = self.chain[1].batch_size
          /\ Len(call.pattern_x[1]) = self.length

\* C24: zero-time scan load. After scan_load(P) or scan_load(P, S) with N x K
\* matrices, whatever the registers held, register j holds on lane i the value
\* P[i][j], with strength 1 when no strength matrix is passed and S[i][j]
\* otherwise; and on the shift cycle that follows the load each downstream
\* register captures what the load put in its predecessor.
C24_ZeroTimeScanLoad ==
    [][/\ slast'.op = "scan_load" /\ WellShaped(slast', scan) =>
             /\ ~slast'.raised
             /\ \A j \in 1..scan.length, i \in 1..scan.chain[1].batch_size :
                   ChainLanes(heap', scan, j)[i]
                      = [v |-> slast'.pattern_val[i][j],
                         s |-> IF slast'.pattern_x = NoPattern THEN 1
                               ELSE slast'.pattern_x[i][j]]
       /\ slast.op = "scan_load" /\ WellShaped(slast, scan) /\ slast'.op = "shift" =>
             /\ ~slast'.raised
             /\ \A j \in 2..scan.length :
                   ChainLanes(heap', scan, j) = ChainLanes(heap, scan, j - 1)]_vars

\* a load with a strength matrix: register 1 is left at Z (V = 1, S = 0) on
\* lane 1, the last register at strong 0
C24_Witness ==
    /\ slast.op = "scan_load"
    /\ ~slast.raised
    /\ slast.pattern_x # NoPattern
    /\ ChainLanes(heap, scan, 1)[1] = LaneZ
    /\ ChainLanes(heap, scan, scan.length)[1] = Lane0

\* C25: scan_load shape errors are all-or-nothing. A scan_load whose value or
\* strength matrix is not N x K fails; a scan_load that fails leaves every
\* register of the chain as it was; and after any scan_load the V and S
\* buffers of every register have batch_size lanes.
C25_ShapeErrorsAtomic ==
    [][slast'.op = "scan_load" =>
          /\ ~WellShaped(slast', scan) => slast'.raised
          /\ slast'.raised => heap' = heap
          /\ \A j \in 1..scan.length :
                /\ Len(heap'[scan.chain[j].q].v_data) = scan.chain[j].batch_size
                /\ Len(heap'[scan.chain[j].q].s_data) = scan.chain[j].batch_size]_vars

\* K shift cycles from the heap h, cycle c feeding at scan-in the bit destined
\* for register K - c + 1 (the last register's bit first), driven strong
RECURSIVE ShiftIn(_, _, _, _)
ShiftIn(h, self, pattern, c) ==
    IF c > self.length THEN h
    ELSE LET fed(d) ==
                 ShiftIn(ShiftCycle(d.heap, self.chain, d.ref, self.length).heap, self, pattern,
                         c + 1)
         IN  fed(from_host(h, Column(pattern, self.length - c + 1),
                           [i \in 1..Len(pattern) |-> 1], DEFAULT_BACKEND))

\* every register of the chain holds batch_size lanes of V and of S
ChainIntact(h, self) ==
    \A j \in 1..self.length :
       /\ Len(h[self.chain[j].q].v_data) = self.chain[j].batch_size
       /\ Len(h[self.chain[j].q].s_data) = self.chain[j].batch_size

\* every register holds the same lanes in the heaps g and h
SameChain(g, h, self) == \A j \in 1..self.length : ChainLanes(g, self, j) = ChainLanes(h, self, j)

\* C26: scan teleport equality. From every state the chain reaches, with
\* X or Z lanes or not, and for every N x K pattern of bits P, K shift cycles
\* with a simultaneous edge that feed P's bits at scan-in, the last register's
\* first, leave every register with the lanes scan_load(P) leaves.
C26_ScanTeleportEquality ==
    slast.op # "off" /\ ChainIntact(heap, scan) =>
       \A pattern \in Matrices(scan.chain[1].batch_size, scan.length) :
          SameChain(ShiftIn(heap, scan, pattern, 1),
                    scan_load(heap, scan, pattern, NoPattern).heap, scan)

\* a chain clocked from a state with an undefined lane, now holding 1 in its
\* first register and 0 in its last: what scan_load of that pattern gives
C26_Witness ==
    /\ slast.op = "shift"
    /\ ~slast.raised
    /\ \A i \in 1..scan.chain[1].batch_size :
          /\ ChainLanes(heap, scan, 1)[i] = Lane1
          /\ ChainLanes(heap, scan, scan.length)[i] = Lane0
    /\ SameChain(heap,
                 scan_load(heap, scan,
                           [i \in 1..scan.chain[1].batch_size |->
                               [j \in 1..scan.length |-> IF j = scan.length THEN 0 ELSE 1]],
                           NoPattern).heap,
                 scan)

\* the lane a fault takes: Python's lane index counts from 0
FaultLane(fault) == fault.index + 1

\* the state a stuck-at fault pins a lane to
Stuck(fault) == [v |-> fault.type, s |-> 1]

\* C22: fault isolation. With faults registered on input a only, both inputs
\* driven to 1 on every lane, the campaign's masks forced onto a and the
\* circuit evaluated, every signal holds on every lane without a fault what it
\* holds on the gold lane, and n = a ^ b holds on each fault lane the stuck
\* value xor 1: stuck-at-0 then stuck-at-1 on lanes 1 and 2 give n = [0,1,0,..].
C22_FaultIsolation ==
    [][/\ clast \in {"force", "force_raised"}
       /\ flast \in {"get_masks", "get_masks_raised"}
       /\ clast' = "step"
       /\ \A k \in 1..Len(fc.fault_list) : fc.fault_list[k].name = "a"
       /\ SigLanes(chip, heap, "a")[1] = Lane1
       /\ \A i \in 1..chip.batch_size : SigLanes(chip, heap, "b")[i] = Lane1
       => /\ \A x \in DOMAIN chip.signals, i \in 1..chip.batch_size :
                i \notin {FaultLane(fc.fault_list[k]) : k \in 1..Len(fc.fault_list)} =>
                   SigLanes(chip', heap', x)[i] = SigLanes(chip', heap', x)[1]
          /\ \A k \in 1..Len(fc.fault_list) :
                SigLanes(chip', heap', "n")[FaultLane(fc.fault_list[k])]
                   = XorTable(Stuck(fc.fault_list[k]), Lane1)]_vars

\* C23: fault application site. After step(), a signal that a gate drives and
\* that has a registered fault holds the stuck value on the fault's lane, and
\* so has the gate that reads it seen it: y = ~n is the inverse of the stuck
\* value there.
C23_FaultApplicationSite ==
    [][clast' = "step" =>
          \A k \in 1..Len(fc.fault_list) :
             fc.fault_list[k].name \in CombOutputs(chip) /\ fc.fault_list[k].name = "n" =>
                /\ SigLanes(chip', heap', "n")[FaultLane(fc.fault_list[k])]
                      = Stuck(fc.fault_list[k])
                /\ SigLanes(chip', heap', "y")[FaultLane(fc.fault_list[k])]
                      = NotTable(Stuck(fc.fault_list[k]))]_vars

\* C28: unknown signal names are errors at the call. A set_input or
\* get_output that fails leaves the Chip as it was and a set_input that
\* succeeds binds no new name; an add_fault that succeeds has named a signal
\* of the netlist, and one that fails leaves the campaign as it was.
C28_UnknownNamesRejected ==
    [][/\ clast' \in {"set_input_raised", "get_output", "get_output_raised"} =>
             chip' = chip /\ heap' = heap
       /\ clast' = "set_input" => DOMAIN chip'.signals = DOMAIN chip.signals
       /\ flast' = "add_fault" /\ fc' # fc =>
             fc'.fault_list[Len(fc'.fault_list)].name \in DOMAIN chip.signals
       /\ flast' = "add_fault_raised" => fc' = fc]_vars

\* C29: monitor sampling. A sample() taken after a step() succeeds and
\* records for every monitored signal the state the Chip holds under that name
\* (the monitor's lane), 0 as 0, 1 as 1 and X or Z as X, here as twice the
\* plot value.
C29_MonitorSampling ==
    [][clast = "step" /\ mon' # mon =>
          /\ mlast' = "sample"
          /\ \A x \in DOMAIN mon.signals :
                /\ Len(mon'.history[x]) = Len(mon.history[x]) + 1
                /\ mon'.history[x][Len(mon'.history[x])]
                      = PlotValue(SigLanes(chip, heap, x)[mon.instance_id + 1])]_vars

\* the ports of the tensors an instance of the Chip combines: a gate's
\* inputs, a flip-flop's Q, D and reset (it reads no tensor for clk)
OperandPorts(g) == IF IsDff(g) THEN (1..Len(g.ports)) \ {3} ELSE 2..Len(g.ports)

\* C27: operand compatibility. A step() of a Chip in which a gate or a
\* flip-flop combines tensors of different batch sizes fails and leaves the
\* lanes of those tensors as they were; so does a DFlipFlop.step whose D has
\* another batch size than Q; and after any of them the flip-flop's Q and the
\* tensors bound to the outputs have V and S buffers of their batch size.
C27_OperandCompatibility ==
    [][/\ clast' \in {"step", "step_raised"} =>
             \A k \in 1..Len(chip.instances) :
                LET g == chip.instances[k]
                IN  (\E i, j \in OperandPorts(g) :
                        heap[chip.signals[g.ports[i]]].batch_size
                           # heap[chip.signals[g.ports[j]]].batch_size)
                    => /\ clast' = "step_raised"
                       /\ \A i \in OperandPorts(g) :
                             SigLanes(chip', heap', g.ports[i])
                                = SigLanes(chip, heap, g.ports[i])
       /\ clast' \in {"ff_step", "ff_step_raised"}
          /\ heap[chip.signals["d"]].batch_size # ff.batch_size
          => /\ clast' = "ff_step_raised"
             /\ Lanes(_buffers(heap'[ff.q])) = Lanes(_buffers(heap[ff.q]))
       /\ clast' \in {"step", "ff_step"} =>
             \A ref \in {ff.q} \cup {chip'.signals[x] : x \in Range(chip.outputs)} :
                /\ Len(heap'[ref].v_data) = heap'[ref].batch_size
                /\ Len(heap'[ref].s_data) = heap'[ref].batch_size]_vars

\* C30: the clk port of a DFF is ignored. Whatever 4-state tensor the signal
\* in the clk position is bound to before a step(), the step fails or not as
\* it did, and every other signal holds afterwards the lanes it holds with
\* clk left alone.
C30_ClkIgnored ==
    [][clast' \in {"step", "step_raised"} =>
          \A data_v \in [1..chip.batch_size -> 0..1], data_s \in [1..chip.batch_size -> 0..1] :
             LET same(st) ==
                     /\ st.raised = (clast' = "step_raised")
                     /\ \A x \in DOMAIN chip.signals \ {"clk"} :
                           Lanes(_buffers(st.heap[st.signals[x]])) = SigLanes(chip', heap', x)
                 driven(r) == same(Chip_step(set_input(chip, "clk", r.ref), r.heap))
             IN  driven(from_host(heap, data_v, data_s, DEFAULT_BACKEND))]_vars

\* the flip-flop with a reset port has captured D = 1 on a step() during
\* which clk held a strong 0
C30_Witness ==
    /\ clast = "step"
    /\ chip.name = "mix_rst"
    /\ SigLanes(chip, heap, "clk")[1] = Lane0
    /\ SigLanes(chip, heap, "q")[1] = Lane1

\* the same operation on the other backend
Twin(op) ==
    CASE op = "cpu_and" -> "cuda_and" [] op = "cuda_and" -> "cpu_and"
      [] op = "cpu_or" -> "cuda_or" [] op = "cuda_or" -> "cpu_or"
      [] op = "cpu_xor" -> "cuda_xor" [] op = "cuda_xor" -> "cpu_xor"
      [] op = "cpu_not" -> "cuda_not" [] op = "cuda_not" -> "cpu_not"
      [] op = "cpu_dff" -> "cuda_dff" [] op = "cuda_dff" -> "cpu_dff"
      [] op = "cpu_inject" -> "cuda_inject" [] OTHER -> "cpu_inject"

\* C31: CPU/accelerator equivalence. Whatever words from_host put into the
\* operand buffers, a kernel of one backend leaves in the output buffer
\* exactly the V and S words the other backend's kernel for the same
\* operation leaves there.
C31_BackendEquivalence ==
    [][klast' \in KernelOps => kout' = KernelRun(Twin(klast'), kout, ka, kb)]_vars


\* the combinational gates standing before position k of the evaluation order
Emitted(c, k) == {c.sorted_gates[j] : j \in 1..(k - 1)}

\* a gate none of whose inputs is written by a combinational gate
Rooted(c, g) == \A h \in Range(DeclaredGates(c)) : ~Feeds(h, g)

\* the gates not yet emitted at position k whose producers all are
ReadyAt(c, k) ==
    {g \in Range(DeclaredGates(c)) \ Emitted(c, k) :
        \A h \in Range(DeclaredGates(c)) : Feeds(h, g) => h \in Emitted(c, k)}

\* the gate of a set that stands first in the declaration
FirstDeclared(c, gs) ==
    DeclaredGates(c)[CHOOSE k \in 1..Len(DeclaredGates(c)) :
                        /\ DeclaredGates(c)[k] \in gs
                        /\ \A j \in 1..(k - 1) : DeclaredGates(c)[j] \notin gs]

\* of the ready gates, the rooted ones when there are any
Preferred(c, ready) ==
    IF \E g \in ready : Rooted(c, g) THEN {g \in ready : Rooted(c, g)} ELSE ready

\* C32: levelization determinism. The evaluation order of a Chip is the order
\* compiling its gate list gives again; every gate reading only primary inputs
\* or flip-flop outputs stands before every gate that reads another gate; and
\* at each position the gate emitted is, of the gates ready there (the rooted
\* ones first), the one declared first.
C32_LevelizationDeterminism ==
    chip # NoChip =>
       /\ chip.sorted_gates = _topological_sort(chip.instances)
       /\ \A i, j \in 1..Len(chip.sorted_gates) :
             Rooted(chip, chip.sorted_gates[i]) /\ ~Rooted(chip, chip.sorted_gates[j]) => i < j
       /\ \A k \in 1..Len(chip.sorted_gates) :
             chip.sorted_gates[k] = FirstDeclared(chip, Preferred(chip, ReadyAt(chip, k)))

\* C33: batch-size invariant of a Chip. After construction and after every
\* set_input and step(), each signal is bound to a tensor whose batch size, V
\* length and S length are the Chip's batch size.
C33_BatchSizeInvariant ==
    clast # "off" =>
       \A x \in DOMAIN chip.signals :
          /\ heap[chip.signals[x]].batch_size = chip.batch_size
          /\ Len(heap[chip.signals[x]].v_data) = chip.batch_size
          /\ Len(heap[chip.signals[x]].s_data) = chip.batch_size

\* the heap after signal x's tensor is forced to strong 1 on every lane
ForcedHigh(c, h, x) ==
    LET overlay(m) == force(m.heap, c.signals[x], m.ref, m.ref).heap
    IN  overlay(ones(h, h[c.signals[x]].batch_size))

\* C34: exclusive ownership of signal state. After construction and after every
\* set_input and step(), no two signal names of a Chip are bound to the same
\* tensor, and forcing one signal's tensor in place leaves the lanes of every
\* other signal as they were.
C34_ExclusiveOwnership ==
    clast # "off" =>
       \A x, y \in DOMAIN chip.signals :
          x # y =>
             /\ chip.signals[x] # chip.signals[y]
             /\ Lanes(_buffers(ForcedHigh(chip, heap, x)[chip.signals[y]]))
                   = SigLanes(chip, heap, y)

\* the n-ary 4-state functions on one lane, over the lanes ins of the inputs
AndN(ins) ==
    IF \E k \in DOMAIN ins : ins[k] = Lane0 THEN Lane0
    ELSE IF \A k \in DOMAIN ins : ins[k] = Lane1 THEN Lane1 ELSE LaneX

OrN(ins) ==
    IF \E k \in DOMAIN ins : ins[k] = Lane1 THEN Lane1
    ELSE IF \A k \in DOMAIN ins : ins[k] = Lane0 THEN Lane0 ELSE LaneX

XorN(ins) ==
    IF \A k \in DOMAIN ins : ins[k].s = 1
    THEN [v |-> Cardinality({k \in DOMAIN ins : ins[k].v = 1}) % 2, s |-> 1]
    ELSE LaneX

\* what a gate of the given type gives on one lane
GateN(type, ins) ==
    CASE type = "and" -> AndN(ins)
      [] type = "or" -> OrN(ins)
      [] type = "xor" -> XorN(ins)
      [] type = "nand" -> NotTable(AndN(ins))
      [] type = "nor" -> NotTable(OrN(ins))
      [] type = "xnor" -> NotTable(XorN(ins))
      [] type = "not" -> NotTable(ins[1])
      [] OTHER -> ins[1]

\* the orders of n input ports
PortOrders(n) == {p \in [1..n -> 1..n] : \A i, j \in 1..n : p[i] = p[j] => i = j}

\* the gate g with its input ports in the order p
PortsPermuted(g, p) ==
    [g EXCEPT !.ports = <<g.ports[1]>> \o [k \in 1..(Len(g.ports) - 1) |-> g.ports[p[k] + 1]]]

\* the lanes gate g's output holds once the gate is evaluated on the state left
GateOutput(g) ==
    LET read(st) == Lanes(_buffers(st.heap[st.signals[g.ports[1]]]))
    IN  read(EvalGate(StepState(chip'.signals, heap', FALSE), g))

\* C35: multi-input and derived gates. After every step() of a Chip of
\* combinational gates, each gate's output holds on every lane the n-ary
\* 4-state function of its inputs (NAND, NOR, XNOR the NOT of AND, OR, XOR; BUF
\* its input), and evaluating the gate with its input ports in any other order
\* gives the same lanes.
C35_MultiInputGates ==
    [][clast' = "step" /\ chip.dffs = <<>> =>
          \A k \in 1..Len(chip.sorted_gates) :
             /\ \A i \in 1..chip.batch_size :
                   SigLanes(chip', heap', chip.sorted_gates[k].ports[1])[i]
                      = GateN(chip.sorted_gates[k].type,
                              [n \in 1..(Len(chip.sorted_gates[k].ports) - 1) |->
                                  SigLanes(chip', heap', chip.sorted_gates[k].ports[n + 1])[i]])
             /\ \A p \in PortOrders(Len(chip.sorted_gates[k].ports) - 1) :
                      GateOutput(PortsPermuted(chip.sorted_gates[k], p))
                         = SigLanes(chip', heap', chip.sorted_gates[k].ports[1])]_vars

\* the three-input gates stepped with a = 1, b = X, c = 0: the 0 decides the
\* AND, the 1 the OR, the X the XOR
C35_Witness ==
    /\ clast = "step"
    /\ chip.name = "wide"
    /\ \A i \in 1..chip.batch_size :
          /\ SigLanes(chip, heap, "a")[i] = Lane1
          /\ SigLanes(chip, heap, "b")[i] = LaneX
          /\ SigLanes(chip, heap, "c")[i] = Lane0
          /\ SigLanes(chip, heap, "y_and")[i] = Lane0
          /\ SigLanes(chip, heap, "y_or")[i] = Lane1
          /\ SigLanes(chip, heap, "y_xor")[i] = LaneX
          /\ SigLanes(chip, heap, "y_nand")[i] = Lane1
          /\ SigLanes(chip, heap, "y_nor")[i] = Lane0
          /\ SigLanes(chip, heap, "y_xnor")[i] = LaneX
          /\ SigLanes(chip, heap, "y_buf")[i] = Lane1

\* the reference the DebugPort took of the flip-flop's q when it was registered
HeldRef == Entry(dbg, [name |-> "SECURE_EN"]).ref

\* C36: stable identity of flip-flop state. The reference registered in the
\* DebugPort, the one in the ScanChain and ff.q are one tensor throughout;
\* DFlipFlop.step returns that tensor; and read through the reference taken
\* before the call, the tensor holds what the call made the flip-flop's state:
\* the captured D after step, the loaded column after scan_load, the poked
\* value under the mask after DebugPort.write; DebugPort.read returns it.
C36_StableIdentity ==
    [][slast'.op # "off" =>
          /\ Entry(dbg', [name |-> "SECURE_EN"]).ref = ff'.q
          /\ Entry(dbg', [addr |-> 256]).ref = ff'.q
          /\ scan'.chain[1].q = ff'.q
          /\ ff'.q = HeldRef
          /\ slast'.op = "step" =>
                /\ ~slast'.raised
                /\ slast'.ret = HeldRef
                /\ \A i \in 1..ff.batch_size :
                      Lanes(_buffers(heap'[HeldRef]))[i] = DffTable(slast'.d, slast'.reset)
          /\ slast'.op = "scan_load" =>
                /\ ~slast'.raised
                /\ \A i \in 1..ff.batch_size :
                      Lanes(_buffers(heap'[HeldRef]))[i]
                         = [v |-> slast'.pattern_val[i][1],
                            s |-> IF slast'.pattern_x = NoPattern THEN 1
                                  ELSE slast'.pattern_x[i][1]]
          /\ slast'.op = "write" /\ ~slast'.raised =>
                \A i \in 1..ff.batch_size :
                   Lanes(_buffers(heap'[HeldRef]))[i]
                      = OrTable(AndTable(slast'.mask, slast'.value),
                                AndTable(NotTable(slast'.mask),
                                         Lanes(_buffers(heap[HeldRef]))[i]))
          /\ slast'.op = "read" /\ ~slast'.raised =>
                slast'.ret = cpu(heap, HeldRef)]_vars

\* the register poked to 0 through its address after it held 1: the port's
\* reference and ff.q are one tensor and it reads strong 0 on every lane
C36_Witness ==
    /\ slast.op = "write"
    /\ ~slast.raised
    /\ slast.target = [addr |-> 256]
    /\ slast.value = Lane0
    /\ slast.mask = Lane1
    /\ HeldRef = ff.q
    /\ \A i \in 1..ff.batch_size : Lanes(_buffers(heap[ff.q]))[i] = Lane0

C38_StickyFuses ==
    [][\A k \in 1..Len(bank.fuses) : \A i \in 1..bank.batch_size :
          LaneOf(_buffers(heap[bank.fuses[k]]), i) = Lane1
             => /\ k <= Len(bank'.fuses)
                /\ LaneOf(_buffers(heap'[bank'.fuses[k]]), i) = Lane1]_vars

\* a step() that returned after addressing a blown fuse with an X or Z on
\* prog_en or wdata, the fuse still blown
C38_Witness ==
    /\ blast.op = "step"
    /\ ~blast.raised
    /\ blast.hit
    /\ \E k \in 0..(FuseBits - 1) : Blown(heap, bank, k)

\* the names step() may rebind: the output of a gate and the Q of a DFF, the
\* first port of an instance
Driven(c) == {c.instances[k].ports[1] : k \in 1..Len(c.instances)}

\* step() ended in st: the names are those before, and every name that is not
\* driven is bound to the tensor it was bound to, the tensor as it was
StepFrame(c, h, st) ==
    /\ DOMAIN st.signals = DOMAIN c.signals
    /\ \A x \in (DOMAIN c.signals) \ Driven(c) :
          /\ st.signals[x] = c.signals[x]
          /\ st.heap[c.signals[x]] = h[c.signals[x]]

\* set_input(name, ...) left the chip as after: the names are those before, and
\* every other name, the outputs among them, is bound as it was
SetFrame(c, name, after) ==
    /\ DOMAIN after.signals = DOMAIN c.signals
    /\ \A x \in (DOMAIN c.signals) \ {name} : after.signals[x] = c.signals[x]

\* C39: frame of step() and set_input. After construction and after every call
\* the signal names of a Chip are the names declared or named by a port, so every
\* port of an instance has an entry; a step() from here, returning or raising,
\* rebinds only outputs of gates and Qs of DFFs and leaves every other signal
\* on the same tensor with the same lanes; a set_input of any signal to any
\* tensor rebinds that signal alone and leaves the heap as it is.
C39_Frame ==
    clast # "off" =>
       /\ DOMAIN chip.signals = Range(NameSeq(chip))
       /\ Range(AllPorts(chip.instances)) \subseteq DOMAIN chip.signals
       /\ StepFrame(chip, heap, Chip_step(chip, heap))
       /\ \A name \in DOMAIN chip.signals : \A t \in DOMAIN heap :
             /\ ~set_input_raises(chip, name)
             /\ SetFrame(chip, name, set_input(chip, name, t))

\* a step() of the and gate and the flip-flop with d and r driven strong 1: y and
\* q are strong 1, d and r hold what the driver set, and the clock wire nobody
\* drives is still the zero it was built with
C39_Witness ==
    /\ clast = "step"
    /\ chip.name = "mix"
    /\ \A i \in 1..chip.batch_size :
          /\ SigLanes(chip, heap, "d")[i] = Lane1
          /\ SigLanes(chip, heap, "r")[i] = Lane1
          /\ SigLanes(chip, heap, "y")[i] = Lane1
          /\ SigLanes(chip, heap, "q")[i] = Lane1
          /\ SigLanes(chip, heap, "clk")[i] = Lane0

====
